---- MODULE Spec2Model ----
(***************************************************************************)
(* Run Orchestration Engine of mission-control.                            *)
(*                                                                         *)
(* The model covers the two runner variants of the repository:             *)
(*   - the captured-subprocess runner (src/unnamed/part_004), which spawns *)
(*     a child process, tracks it in activeProcesses and reacts to its     *)
(*     close / error events;                                               *)
(*   - the interactive runner (src/unnamed/part_005), which launches an    *)
(*     iTerm2 tab and is completed by markRunComplete.                     *)
(* A deployment imports exactly one of them as '@/lib/runner'; the         *)
(* variable `variant` says which.  Node runs every exported function and   *)
(* every event handler to completion, so each is one atomic action.        *)
(***************************************************************************)
EXTENDS Integers, Sequences, FiniteSets, TLC

\* ------------------------------------------------------------------ bounds
\* Spec explores every operation and fault on a few runs; SpecWide explores
\* more runs with fewer faults.  `budget` holds what a behaviour may still use.
MaxRuns == 2
MaxTimers == 2
MaxErrors == 1
MaxRestarts == 1
MaxSpawnThrows == 1
WideRuns == 3
WideTimers == 1
WideErrors == 1
OutputRuns == 1
MaxChunk == 4
MaxEmitted == 5
MaxBroadcasts == 2
MaxInvocations == 4   \* calls of runMigrations
MaxAttempts == 3      \* connection attempts of the OpenClaw client
MaxCalls == 4         \* calls of OpenClawClient.connect
DirRuns == 1
OptionRuns == 1
StreamRuns == 1
StreamEmitted == 2
StreamBroadcasts == 1
StreamTimers == 1

\* the output ceiling, scaled down from 5 * 1024 * 1024 characters
MAX_OUTPUT_SIZE == 3

\* ------------------------------------------------------- program constants
MAX_CONCURRENT == 2

Tasks == {"t1", "t2", "t3"}
RunIds == 1..(IF MaxRuns > WideRuns THEN MaxRuns ELSE WideRuns)
Variants == {"captured", "interactive"}

\* exit code delivered with 'close': {} is null (killed by a signal)
ExitCodes == {{0}, {1}, {}}
AllCloseCodes == ExitCodes \cup {{-2}}
SpawnOutcomes == {"ok", "throws", "fails"}

\* options.prompt: undefined, '' or a text; options.cli_type: undefined, a
\* supported type or another string
Prompts == {"missing", "empty", "text"}
CliTypes == {"missing", "claude", "codex", "other"}
SupportedCli == {"claude", "codex"}

\* CHECK (status IN (...)) of task_runs.status
SchemaStatuses == {"pending", "running", "completed", "failed", "cancelled"}

Terminal == {"completed", "failed", "cancelled"}
NonTerminal == {"pending", "running", "launched"}

VARIABLES
  variant,          \* which runner module is deployed
  runs,             \* task_runs table: sequence of records, run id = index
  taskStatus,       \* tasks.status per task
  activeProcesses,  \* the in-memory Map runId -> ChildProcess (its key set)
  proc,             \* per run id: state of the ChildProcess object
  timers,           \* per run id: pending setTimeout escalation callbacks
  budget,           \* runs, error events, restarts, spawn throws still allowed
  last,             \* the operation performed last, its result and effects
  batch,            \* a batch of startRun calls issued back to back, and its tally
  req,              \* the request observed last: how startRun was reached, its options
  fullOutput,       \* per run id: the output buffer of the startRun closure
  emitted,          \* per run id: everything the process wrote, in order
  clients,          \* the Set of SSE controllers, in insertion order
  closed,           \* the controllers whose stream is closed: enqueue throws
  inbox,            \* per controller: the events enqueued on it
  sent,             \* the broadcast performed last and what it did
  discord,          \* what the notification dispatcher did
  mig,              \* the database as runMigrations sees it, and its last invocation
  oc                \* the OpenClawClient singleton, its sockets, promises and timers

outputVars == <<fullOutput, emitted>>

sseVars == <<clients, closed, inbox, sent, discord>>

\* what the operations of the runner leave alone
others == <<oc, mig, batch, req, outputVars, sseVars>>

vars == <<variant, runs, taskStatus, activeProcesses, proc, timers, budget, last,
          batch, req, fullOutput, emitted, clients, closed, inbox, sent, discord,
          mig, oc>>

\* ----------------------------------------------------------------- helpers
Exists(r) == r \in 1..Len(runs)

StatusOf(r) == IF Exists(r) THEN runs[r].status ELSE "none"

\* options.project_dir is not given
NoDir == <<>>

\* a row of task_runs, the id'th inserted; {} is NULL, <<>> an output that
\* holds no character; created_at is the time of the insert, counted in rows
NewRun(id, t, st, prompt, cli_type, project_dir) ==
  [id |-> id, task_id |-> t, cli_type |-> cli_type, status |-> st, prompt |-> prompt,
   project_dir |-> project_dir, created_at |-> id,
   exit_code |-> {}, error |-> {}, output |-> <<>>, completed_at |-> FALSE]

\* `last` records the operation performed last: what it was called on (the
\* status of the target run before the call, "none" for an unknown id, and
\* whether its process was in activeProcesses; the task for startRun), what
\* it returned or threw,
\* and the externally visible effects it performed, in program order.
NoOp == [op |-> "init", task |-> "", run |-> 0, pre |-> "none", tracked |-> FALSE, ret |-> "",
         errName |-> "", errMsg |-> "", fx |-> <<>>]

Result(o, r, ret, fx) ==
  [op |-> o, task |-> IF o = "startRun" THEN runs'[r].task_id ELSE "", run |-> r, pre |-> StatusOf(r), tracked |-> r \in activeProcesses, ret |-> ret,
   errName |-> "", errMsg |-> "", fx |-> fx]

Thrown(o, t, name, msg, fx) ==
  [op |-> o, task |-> t, run |-> 0, pre |-> "none", tracked |-> FALSE, ret |-> "throw", errName |-> name,
   errMsg |-> msg, fx |-> fx]

\* INSERT OR REPLACE of the row instead of the UPDATE
SetStatusReplacingRow(r, st) ==
  [runs EXCEPT ![r] = [NewRun(r, runs[r].task_id, st, "", "claude", NoDir)
                         EXCEPT !.completed_at = TRUE]]

\* UPDATE task_runs SET status = ..., completed_at = ... WHERE id = r
SetStatus(r, st) == [runs EXCEPT ![r].status = st, ![r].completed_at = TRUE]

\* the effects of db.transaction(() => ...)() whose callback has the effects
\* fx: they lie between BEGIN and COMMIT.  A write outside a transaction is
\* committed when it is made; a transaction that writes nothing is not
\* recorded.
Transaction(fx) == << <<"begin", "">> >> \o fx \o << <<"commit", "">> >>

\* the effects of updateTaskStatus: the UPDATE and the task_updated broadcast
TaskFx(st) == << <<"task", st>>, <<"broadcast", "task_updated">> >>

\* ------------------------------------------------ project_dir validation
\* An absolute path is the sequence of its components; the root directory is
\* not among the paths given to startRun.
ALLOWED_PROJECT_DIRS ==
  {<<"Users", "bigwoo", "repos">>, <<"Users", "bigwoo", ".openclaw">>, <<"tmp">>}

\* the file system the server runs on: directories, regular files and
\* symbolic links with their targets
Directories ==
  {<<"tmp">>, <<"tmp", "proj">>, <<"etc">>, <<"home">>, <<"Users">>,
   <<"Users", "bigwoo">>, <<"Users", "bigwoo", "repos">>,
   <<"Users", "bigwoo", "repos", "app">>}

Files == {<<"tmp", "notes">>}

Links ==
  (<<"tmp", "evil">> :> <<"etc">>) @@ (<<"tmp", "link">> :> <<"tmp", "proj">>)
    @@ (<<"home", "work">> :> <<"tmp", "proj">>) @@ (<<"tmp", "gone">> :> <<"etc", "absent">>)

\* the values of options.project_dir
ProjectDirs ==
  {<<"tmp", "proj">>, <<"tmp", "evil">>, <<"tmp", "link">>, <<"home", "work">>,
   <<"etc">>, <<"tmp">>, <<"tmp", "notes">>, <<"tmp", "missing">>, <<"tmp", "gone">>,
   <<"tmp", "proj", "..", "..", "etc">>, <<"Users", "bigwoo", "repos", "app">>}

\* path.resolve of an absolute path: ".." removes the component before it
RECURSIVE Resolve(_)
Resolve(p) ==
  IF \E k \in 1..Len(p) : p[k] = ".."
    THEN LET k == CHOOSE i \in 1..Len(p) :
                    p[i] = ".." /\ \A j \in 1..(i - 1) : p[j] # ".."
         IN  Resolve(SubSeq(p, 1, k - 2) \o SubSeq(p, k + 1, Len(p)))
    ELSE p

\* fs.realpathSync: every symbolic link on the path is replaced by its target
RECURSIVE RealPath(_)
RealPath(p) ==
  IF \E k \in 1..Len(p) : SubSeq(p, 1, k) \in DOMAIN Links
    THEN LET k == CHOOSE i \in 1..Len(p) :
                    /\ SubSeq(p, 1, i) \in DOMAIN Links
                    /\ \A j \in 1..(i - 1) : SubSeq(p, 1, j) \notin DOMAIN Links
         IN  RealPath(Links[SubSeq(p, 1, k)] \o SubSeq(p, k + 1, Len(p)))
    ELSE p

\* fs.existsSync follows symbolic links
ExistsSync(p) == RealPath(p) \in Directories \cup Files

\* dir.startsWith(prefix) for a prefix that ends with the separator
StartsWith(dir, prefix) ==
  Len(dir) > Len(prefix) /\ SubSeq(dir, 1, Len(prefix)) = prefix

\* the path that is compared with the allow-list
CheckedPathUnresolved(resolved) == resolved

CheckedPath(resolved) == RealPath(resolved)

IsAllowed(dir) == \E prefix \in ALLOWED_PROJECT_DIRS : StartsWith(dir, prefix)

NotAllowedMsg == "project_dir must be under an allowed directory"

\* the message of the RunValidationError that the validation of
\* options.project_dir throws, "" if it throws none
DirError(project_dir) ==
  IF project_dir = NoDir THEN ""
  ELSE LET resolved == Resolve(project_dir) IN
    IF ~ExistsSync(resolved) THEN "project_dir does not exist"
    ELSE IF ~IsAllowed(CheckedPath(resolved)) THEN NotAllowedMsg
    ELSE IF CheckedPath(resolved) \notin Directories THEN "project_dir is not a directory"
    ELSE ""

\* --------------------------------------------------- admission (captured)
ActiveCount ==
  Cardinality({r \in 1..Len(runs) : runs[r].status \in {"pending", "running"}})

\* mutants of CapacityReached: an off-by-one comparison; a count that, like
\* getRunningCount, leaves the pending runs out
CapacityReachedOffByOne == ActiveCount > MAX_CONCURRENT

CapacityCountsRunningOnly ==
  Cardinality({r \in 1..Len(runs) : runs[r].status = "running"}) >= MAX_CONCURRENT

CapacityReached == ActiveCount >= MAX_CONCURRENT

\* mutant of TaskHasActiveRun: the query leaves the pending runs out
TaskHasRunningRun(t) ==
  \E r \in 1..Len(runs) : runs[r].task_id = t /\ runs[r].status = "running"

TaskHasActiveRun(t) ==
  \E r \in 1..Len(runs) :
    runs[r].task_id = t /\ runs[r].status \in {"pending", "running"}

CapacityMsg == "Maximum concurrent runs (2) reached. Cancel a running task first."
ActiveMsg == "Task already has an active run"

\* mutant of Reject: the insert is done before the checks and not rolled back
RejectAfterInsert(t, msg) ==
  /\ last' = Thrown("startRun", t, "RunValidationError", msg, <<>>)
  /\ runs' = Append(runs, NewRun(Len(runs) + 1, t, "pending", "text", "claude", NoDir))
  /\ UNCHANGED <<taskStatus, activeProcesses, proc, budget>>

\* throw new RunValidationError(msg) inside the transaction: nothing is
\* committed and nothing after insertRun() runs
Reject(t, msg) ==
  /\ last' = Thrown("startRun", t, "RunValidationError", msg, <<>>)
  /\ UNCHANGED <<runs, taskStatus, activeProcesses, proc, budget>>

\* no 'error' event of a failed spawn is queued with process.nextTick: such
\* an event is delivered before any other request, event or timer is handled
Quiescent == \A r \in RunIds : proc[r] # "spawnfail"

\* the INSERT INTO task_runs fails: undefined cannot be bound, prompt is
\* NOT NULL and cli_type has CHECK (cli_type IN ('claude', 'codex'))
InsertFails(prompt, cli_type) == prompt = "missing" \/ cli_type \notin SupportedCli

InsertError(prompt, cli_type) ==
  IF prompt = "missing" \/ cli_type = "missing" THEN "TypeError" ELSE "SqliteError"

\* the statement throws inside the transaction, which is rolled back
FailInsert(t, prompt, cli_type) ==
  /\ last' = Thrown("startRun", t, InsertError(prompt, cli_type), "insert", <<>>)
  /\ UNCHANGED <<runs, taskStatus, activeProcesses, proc, budget>>

\* startRun of the captured runner, called with options.prompt and
\* options.cli_type.  outcome is what spawn() does after the
\* insert committed: "ok"; "throws" synchronously (an argument list it
\* rejects, E2BIG); "fails" asynchronously (ENOENT, EACCES: a child without
\* pid is returned and its 'error' event is queued).  With "taskfails" the
\* spawn succeeds and a statement of updateTaskStatus throws (SQLITE_BUSY,
\* SQLITE_FULL): startRun is left before the broadcast and before the
\* listeners of the child are registered.
StartRun(t, project_dir, prompt, cli_type, outcome) ==
  /\ variant = "captured"
  /\ Quiescent
  /\ IF DirError(project_dir) # "" THEN Reject(t, DirError(project_dir))
     ELSE IF CapacityReached THEN Reject(t, CapacityMsg)
     ELSE IF TaskHasActiveRun(t) THEN Reject(t, ActiveMsg)
     ELSE IF InsertFails(prompt, cli_type) THEN FailInsert(t, prompt, cli_type)
     ELSE LET r == Len(runs) + 1 IN
          /\ budget.runs > 0
          /\ IF outcome = "throws"
               THEN /\ budget.throws > 0
                    /\ budget' = [budget EXCEPT !.runs = @ - 1, !.throws = @ - 1]
                    /\ runs' = Append(runs, NewRun(r, t, "pending", prompt, cli_type,
                                                   project_dir))
                    /\ last' = Thrown("startRun", t, "Error", "spawn",
                                      Transaction(<< <<"db", "pending">> >>))
                    /\ UNCHANGED <<taskStatus, activeProcesses, proc>>
             ELSE IF outcome = "taskfails"
               THEN /\ budget.throws > 0
                    /\ budget' = [budget EXCEPT !.runs = @ - 1, !.throws = @ - 1]
                    /\ runs' = Append(runs, NewRun(r, t, "running", prompt, cli_type,
                                                   project_dir))
                    /\ activeProcesses' = activeProcesses \cup {r}
                    /\ proc' = [proc EXCEPT ![r] = "unheard"]
                    /\ last' = Thrown("startRun", t, "SqliteError", "updateTaskStatus",
                                      Transaction(<< <<"db", "pending">> >>)
                                      \o << <<"spawn", "">>, <<"db", "running">> >>)
                    /\ UNCHANGED taskStatus
               ELSE /\ outcome = "fails" => budget.errors > 0
                    /\ budget' = [budget EXCEPT
                                    !.runs = @ - 1,
                                    !.errors = IF outcome = "fails" THEN @ - 1 ELSE @]
                    /\ runs' = Append(runs, NewRun(r, t, "running", prompt, cli_type,
                                                   project_dir))
                    /\ activeProcesses' = activeProcesses \cup {r}
                    /\ proc' = [proc EXCEPT
                                  ![r] = IF outcome = "fails" THEN "spawnfail" ELSE "live"]
                    /\ taskStatus' = [taskStatus EXCEPT ![t] = "in_progress"]
                    /\ last' = Result("startRun", r, "running",
                                      Transaction(<< <<"db", "pending">> >>)
                                      \o << <<"spawn", "">>, <<"db", "running">> >>
                                      \o TaskFx("in_progress")
                                      \o << <<"broadcast", "running">> >>)
  /\ UNCHANGED <<variant, timers>>

\* ----------------------------------------------------- output (captured)
Chars == {"a", "b"}

\* '... (truncated) ...\n', which holds no character of the output
TruncationMarker == <<"...", "(truncated)", "...", "\n">>

\* the texts chunk.toString() can give, up to MaxChunk characters
Chunks == UNION {[1..n -> Chars] : n \in 1..MaxChunk}

\* mutant of SliceLast: the head is kept instead of the tail
SliceFirst(s, n) == SubSeq(s, 1, IF Len(s) < n THEN Len(s) ELSE n)

\* s.slice(-n)
SliceLast(s, n) == SubSeq(s, IF Len(s) < n THEN 1 ELSE Len(s) - n + 1, Len(s))

Truncates(buf) == Len(buf) > MAX_OUTPUT_SIZE

\* fullOutput after handleData appended text to it
Accumulate(buf, text) ==
  LET appended == buf \o text IN
  IF Truncates(appended)
    THEN TruncationMarker \o SliceLast(appended, MAX_OUTPUT_SIZE)
    ELSE appended

IsTruncated(buf) ==
  Len(buf) >= Len(TruncationMarker)
  /\ SubSeq(buf, 1, Len(TruncationMarker)) = TruncationMarker

RECURSIVE SumEmitted(_)
SumEmitted(n) == IF n = 0 THEN 0 ELSE Len(emitted[n]) + SumEmitted(n - 1)

\* handleData, the 'data' listener of the child's stdout and stderr
HandleData(r, text) ==
  /\ variant = "captured"
  /\ Quiescent
  /\ proc[r] = "live"
  /\ SumEmitted(Len(runs)) + Len(text) <= MaxEmitted
  /\ emitted' = [emitted EXCEPT ![r] = @ \o text]
  /\ fullOutput' = [fullOutput EXCEPT ![r] = Accumulate(@, text)]
  /\ last' = Result("data", r, "",
                    (IF Truncates(fullOutput[r] \o text)
                       THEN << <<"truncate",
                                 IF IsTruncated(fullOutput[r]) THEN "again" ELSE "first">> >>
                       ELSE <<>>)
                    \o << <<"broadcast", "run_output">> >>)
  /\ UNCHANGED <<variant, runs, taskStatus, activeProcesses, proc, timers, budget>>

\* ------------------------------------------------ process events (captured)
\* mutant of Untrack: the entry stays in the map
UntrackNothing(r) == activeProcesses

\* activeProcesses.delete(runId)
Untrack(r) == activeProcesses \ {r}

\* mutant of CloseSkips: the close handler does not re-read the status
CloseNeverSkips(r) == FALSE

CloseSkips(r) == StatusOf(r) = "cancelled"

\* mutant of FinalStatus: the test is !code, so null counts as success
FinalStatusFalsy(code) == IF code \in {{0}, {}} THEN "completed" ELSE "failed"

FinalStatus(code) == IF code = {0} THEN "completed" ELSE "failed"

TaskStatusFor(st) == IF st = "completed" THEN "review" ELSE "testing"

\* the exit code 'close' carries: any code or null after a normal spawn, the
\* negative errno after a failed spawn
CloseCodes(r) == IF proc[r] = "errored" THEN {{-2}} ELSE ExitCodes

CodeName(code) ==
  IF code = {} THEN "null" ELSE IF code = {0} THEN "0" ELSE IF code = {1} THEN "1" ELSE "-2"

\* child.on('close', code => ...).  taskFails: a statement of
\* updateTaskStatus throws, which leaves the listener before the broadcast.
CloseEventWith(r, code, taskFails) ==
  /\ variant = "captured"
  /\ Quiescent
  /\ proc[r] \in {"live", "errored"}
  /\ code \in CloseCodes(r)
  /\ proc' = [proc EXCEPT ![r] = "closed"]
  /\ activeProcesses' = Untrack(r)
  /\ IF CloseSkips(r)
       THEN /\ ~taskFails
            /\ last' = Result("close", r, "", <<>>)
            /\ UNCHANGED <<runs, taskStatus, budget>>
       ELSE LET fin == FinalStatus(code) IN
            /\ runs' = [runs EXCEPT ![r].status = fin, ![r].exit_code = code,
                                    ![r].output = fullOutput[r],
                                    ![r].completed_at = TRUE]
            /\ IF taskFails
                 THEN /\ budget.throws > 0
                      /\ budget' = [budget EXCEPT !.throws = @ - 1]
                      /\ last' = [Result("close", r, "throw", << <<"db", fin>> >>)
                                    EXCEPT !.errName = "SqliteError",
                                           !.errMsg = "updateTaskStatus"]
                      /\ UNCHANGED taskStatus
                 ELSE /\ taskStatus' = [taskStatus EXCEPT
                                          ![runs[r].task_id] = TaskStatusFor(fin)]
                      /\ last' = Result("close", r, CodeName(code),
                                        << <<"db", fin>> >> \o TaskFx(TaskStatusFor(fin))
                                        \o << <<"broadcast", fin>> >>)
                      /\ UNCHANGED budget
  /\ UNCHANGED <<variant, timers>>

CloseEvent(r, code) == CloseEventWith(r, code, FALSE)

\* what child.on('error', err => ...) writes and broadcasts
ErrorHandlerRuns(r) ==
  [runs EXCEPT ![r].status = "failed", ![r].error = {"err"},
               ![r].output = fullOutput[r], ![r].completed_at = TRUE]

ErrorHandlerFx ==
  << <<"db", "failed">> >> \o TaskFx("testing") \o << <<"broadcast", "failed">> >>

\* the 'error' event of a spawn that failed, delivered on the next tick
SpawnErrorEvent(r) ==
  /\ variant = "captured"
  /\ proc[r] = "spawnfail"
  /\ proc' = [proc EXCEPT ![r] = "errored"]
  /\ activeProcesses' = Untrack(r)
  /\ runs' = ErrorHandlerRuns(r)
  /\ taskStatus' = [taskStatus EXCEPT ![runs[r].task_id] = "testing"]
  /\ last' = Result("error", r, "", ErrorHandlerFx)
  /\ UNCHANGED <<variant, timers, budget>>

\* ------------------------------------------------------ cancel (captured)
TrackedLive(r) == r \in activeProcesses

\* mutant of CancelLiveFx: the signal is sent before cancelled is persisted
CancelLiveFxSignalFirst(killFails) ==
  << <<"signal", "SIGTERM">> >>
  \o (IF killFails THEN ErrorHandlerFx ELSE <<>>)
  \o << <<"db", "cancelled">>, <<"timer", "5000">>, <<"broadcast", "cancelled">> >>

\* the effects of the live branch of cancelRun, in program order.  killFails:
\* child.kill cannot signal the process (EPERM) and emits 'error', whose
\* handler runs inside the call.
CancelLiveFx(killFails) ==
  << <<"db", "cancelled">>, <<"signal", "SIGTERM">> >>
  \o (IF killFails THEN ErrorHandlerFx ELSE <<>>)
  \o << <<"timer", "5000">>, <<"broadcast", "cancelled">> >>

\* the fallback query: SELECT ... WHERE id = ? AND status = 'running'
PersistedCancellable(r) == StatusOf(r) = "running"

RECURSIVE SumTimers(_)
SumTimers(n) == IF n = 0 THEN 0 ELSE timers[n] + SumTimers(n - 1)

PendingTimers == SumTimers(Len(runs))

CancelRun(r, killFails) ==
  /\ variant = "captured"
  /\ Quiescent
  /\ killFails => proc[r] # "unheard"   \* 'error' without a listener: not explored
  /\ IF TrackedLive(r)
       THEN /\ PendingTimers < budget.timers
            /\ timers' = [timers EXCEPT ![r] = @ + 1]
            /\ last' = Result("cancelRun", r, "true", CancelLiveFx(killFails))
            /\ IF killFails
                 THEN /\ budget.errors > 0
                      /\ budget' = [budget EXCEPT !.errors = @ - 1]
                      /\ runs' = ErrorHandlerRuns(r)
                      /\ activeProcesses' = Untrack(r)
                      /\ taskStatus' = [taskStatus EXCEPT ![runs[r].task_id] = "testing"]
                 ELSE /\ runs' = SetStatus(r, "cancelled")
                      /\ UNCHANGED <<budget, activeProcesses, taskStatus>>
     ELSE IF PersistedCancellable(r)
       THEN /\ ~killFails
            /\ runs' = SetStatus(r, "cancelled")
            /\ last' = Result("cancelRun", r, "true",
                              << <<"db", "cancelled">>, <<"broadcast", "cancelled">> >>)
            /\ UNCHANGED <<timers, budget, activeProcesses, taskStatus>>
     ELSE /\ ~killFails
          /\ last' = Result("cancelRun", r, "false", <<>>)
          /\ UNCHANGED <<runs, timers, budget, activeProcesses, taskStatus>>
  /\ UNCHANGED <<variant, proc>>

\* mutant of TimerKills: the callback does not look the run up in the map
TimerAlwaysKills(r) == TRUE

TimerKills(r) == r \in activeProcesses

\* the setTimeout callback of cancelRun, after the 5 s grace period
KillTimer(r, killFails) ==
  /\ variant = "captured"
  /\ Quiescent
  /\ timers[r] > 0
  /\ killFails => proc[r] # "unheard"   \* 'error' without a listener: not explored
  /\ timers' = [timers EXCEPT ![r] = @ - 1]
  /\ IF TimerKills(r)
       THEN /\ activeProcesses' = Untrack(r)
            /\ IF killFails
                 THEN /\ budget.errors > 0
                      /\ budget' = [budget EXCEPT !.errors = @ - 1]
                      /\ runs' = ErrorHandlerRuns(r)
                      /\ taskStatus' = [taskStatus EXCEPT ![runs[r].task_id] = "testing"]
                      /\ last' = Result("killTimer", r, "",
                                        << <<"signal", "SIGKILL">> >> \o ErrorHandlerFx)
                 ELSE /\ last' = Result("killTimer", r, "", << <<"signal", "SIGKILL">> >>)
                      /\ UNCHANGED <<runs, taskStatus, budget>>
       ELSE /\ ~killFails
            /\ last' = Result("killTimer", r, "", <<>>)
            /\ UNCHANGED <<activeProcesses, runs, taskStatus, budget>>
  /\ UNCHANGED <<variant, proc>>

\* the server process is restarted: module state is lost, the database stays
Restart ==
  /\ budget.restarts > 0
  /\ budget' = [budget EXCEPT !.restarts = @ - 1]
  /\ activeProcesses' = {}
  /\ proc' = [r \in RunIds |-> "none"]
  /\ timers' = [r \in RunIds |-> 0]
  /\ last' = Result("restart", 0, "", <<>>)
  /\ UNCHANGED <<variant, runs, taskStatus>>

\* --------------------------------------------------- interactive runner
\* the exclusivity query of launchInITerm2
TaskHasActiveRunInteractive(t) ==
  \E r \in 1..Len(runs) :
    runs[r].task_id = t /\ runs[r].status \in {"pending", "running", "launched"}

\* startRun of the interactive runner.  launchFails: osascript fails.
LaunchInITerm2(t, project_dir, prompt, cli_type, launchFails) ==
  /\ variant = "interactive"
  /\ IF DirError(project_dir) # "" THEN Reject(t, DirError(project_dir))
     ELSE IF TaskHasActiveRunInteractive(t) THEN Reject(t, ActiveMsg)
     ELSE IF InsertFails(prompt, cli_type) THEN FailInsert(t, prompt, cli_type)
     ELSE /\ budget.runs > 0
          /\ budget' = [budget EXCEPT !.runs = @ - 1]
          /\ IF launchFails
               THEN /\ runs' = Append(runs,
                                      [NewRun(Len(runs) + 1, t, "failed", prompt,
                                              cli_type, project_dir)
                                         EXCEPT !.error = {"err"},
                                                !.completed_at = TRUE])
                    /\ UNCHANGED <<activeProcesses, proc>>
                    /\ last' = Thrown("startRun", t, "Error", "osascript",
                                      Transaction(<< <<"db", "launched">> >>)
                                      \o << <<"db", "failed">>,
                                            <<"broadcast", "failed">> >>)
                    /\ UNCHANGED taskStatus
               ELSE /\ runs' = Append(runs, NewRun(Len(runs) + 1, t, "launched", prompt,
                                                   cli_type, project_dir))
                    /\ UNCHANGED <<activeProcesses, proc>>
                    /\ taskStatus' = [taskStatus EXCEPT ![t] = "in_progress"]
                    /\ last' = Result("startRun", Len(runs) + 1, "launched",
                                      Transaction(<< <<"db", "launched">> >>)
                                      \o TaskFx("in_progress")
                                      \o << <<"broadcast", "launched">> >>)
  /\ UNCHANGED <<variant, timers>>

\* SELECT ... WHERE id = ? AND status IN ('running', 'launched', 'pending')
CancellableInteractive(r) == StatusOf(r) \in {"running", "launched", "pending"}

\* cancelRun of the interactive runner
CancelRunInteractive(r) ==
  /\ variant = "interactive"
  /\ IF CancellableInteractive(r)
       THEN /\ runs' = SetStatus(r, "cancelled")
            /\ last' = Result("cancelRun", r, "true",
                              Transaction(<< <<"db", "cancelled">>,
                                             <<"broadcast", "cancelled">> >>))
       ELSE /\ last' = Result("cancelRun", r, "false", <<>>)
            /\ UNCHANGED runs
  /\ UNCHANGED <<variant, taskStatus, activeProcesses, proc, timers, budget>>

\* mutant of Completable: the query does not look at the status
CompletableInAnyStatus(r) == Exists(r)

\* SELECT ... WHERE id = ? AND status = 'launched'
Completable(r) == StatusOf(r) = "launched"

MarkRunComplete(r) ==
  /\ variant = "interactive"
  /\ IF Completable(r)
       THEN /\ runs' = SetStatus(r, "completed")
            /\ taskStatus' = [taskStatus EXCEPT ![runs[r].task_id] = "review"]
            /\ last' = Result("markRunComplete", r, "true",
                              Transaction(<< <<"db", "completed">> >>)
                              \o TaskFx("review")
                              \o << <<"broadcast", "completed">> >>)
       ELSE /\ last' = Result("markRunComplete", r, "false", <<>>)
            /\ UNCHANGED <<runs, taskStatus>>
  /\ UNCHANGED <<variant, activeProcesses, proc, timers, budget>>

\* --------------------------------------------------------------- migrations
\* the ids of the migrations list, in its order
migrations == <<"001", "002", "003", "004", "005", "006", "007">>

MigrationIds == {migrations[i] : i \in 1..Len(migrations)}

\* what makes the transaction of a migration throw: its up step or the
\* INSERT INTO _migrations
FailurePoints == {"up", "insert"}

NoFailure == [id |-> "", at |-> ""]

\* `mig` holds the _migrations table (applied), the migrations whose schema
\* changes are in the database (schema), how often the up step of each
\* migration was committed (ups), and of the invocation of runMigrations
\* performed last: the migrations whose up step it started, in order (ran),
\* and the migration it rethrew the error of (threw); calls counts the
\* invocations
NoMigrations ==
  [applied |-> {}, schema |-> {}, ups |-> [id \in MigrationIds |-> 0],
   ran |-> <<>>, threw |-> NoFailure, calls |-> 0]

\* mutant of Skips: the applied set is not consulted
SkipsNothing(seen, id) == FALSE

\* if (applied.has(migration.id)) continue
Skips(seen, id) == id \in seen

\* db.transaction(() => { migration.up(db); INSERT INTO _migrations })()
\* that returns: the schema changes and the record are committed together
Commit(m, id) ==
  [m EXCEPT !.applied = @ \cup {id}, !.schema = @ \cup {id}, !.ups[id] = @ + 1,
            !.ran = Append(@, id)]

\* the callback throws at `at`: better-sqlite3 rolls the transaction back,
\* which undoes the schema changes of up, and throws the error on
RollBack(m, id, at) == [m EXCEPT !.ran = Append(@, id), !.threw = [id |-> id, at |-> at]]

RECURSIVE Migrate(_, _, _, _)

\* mutant of Rethrow: the error is logged and the loop goes on
Swallow(i, m, seen, fails) == Migrate(i + 1, m, seen, fails)

\* catch (error) { console.error(...); throw error }: the loop is left
Rethrow(i, m, seen, fails) == m

\* the loop of runMigrations from the i'th migration on; seen is the set
\* read from _migrations before the loop
Migrate(i, m, seen, fails) ==
  IF i > Len(migrations) THEN m
  ELSE LET id == migrations[i] IN
       IF Skips(seen, id) THEN Migrate(i + 1, m, seen, fails)
       ELSE IF fails.id = id THEN Rethrow(i, RollBack(m, id, fails.at), seen, fails)
       ELSE Migrate(i + 1, Commit(m, id), seen, fails)

\* runMigrations(db).  fails: the migration whose transaction throws in
\* this invocation and where, NoFailure if none does
RunMigrations(fails) ==
  /\ mig.calls < MaxInvocations
  /\ mig' = Migrate(1, [mig EXCEPT !.ran = <<>>, !.threw = NoFailure, !.calls = @ + 1],
                    mig.applied, fails)

\* { applied, pending } of getMigrationStatus
getMigrationStatus ==
  [applied |-> mig.applied,
   pending |-> {id \in MigrationIds : id \notin mig.applied}]

\* ---------------------------------------------------------- OpenClaw client
\* A connection attempt, the promise it creates and the WebSocket it opens
\* share one id; 0 is null.
AttemptIds == 1..MaxAttempts

NoCall == [n |-> 0, via |-> "", returned |-> 0, immediate |-> FALSE, opened |-> FALSE]

\* `oc` holds the fields of the client (ws, connected, authenticated,
\* connecting, autoReconnect, reconnectTimer), per attempt the readyState of
\* its socket and the state of its promise, the sockets whose onopen,
\* onerror and onmessage are set (listening) and whose onclose is set
\* (closeHandled), the attempts whose connection timeout is pending (timer),
\* whose connect request is in pendingRequests (authPending) and whose
\* promise the reconnect callback awaits (awaited), the number of attempts,
\* and the connect() call made last: what it returned (0 for a promise that
\* is resolved at once) and whether it opened a socket
NoClient ==
  [ws |-> 0, connected |-> FALSE, authenticated |-> FALSE, connecting |-> 0,
   autoReconnect |-> TRUE, reconnectTimer |-> FALSE,
   sock |-> [a \in AttemptIds |-> "none"],
   promise |-> [a \in AttemptIds |-> "none"],
   listening |-> {}, closeHandled |-> {}, timer |-> {}, authPending |-> {},
   awaited |-> {}, attempts |-> 0, call |-> NoCall]

\* ws.close() on the socket s
CloseSocket(o, s) ==
  IF o.sock[s] \in {"connecting", "open"} THEN [o EXCEPT !.sock[s] = "closing"] ELSE o

ScheduleReconnect(o) ==
  IF o.reconnectTimer \/ ~o.autoReconnect THEN o ELSE [o EXCEPT !.reconnectTimer = TRUE]

\* reject(...) of the promise of attempt a; the catch of the reconnect
\* callback that awaits it schedules the next reconnect
RejectAttempt(o, a) ==
  IF o.promise[a] # "pending" THEN o
  ELSE LET p == [o EXCEPT !.promise[a] = "rejected", !.awaited = @ \ {a}]
       IN  IF a \in o.awaited THEN ScheduleReconnect(p) ELSE p

\* resolve() of the promise of attempt a
ResolveAttempt(o, a) ==
  IF o.promise[a] # "pending" THEN o
  ELSE [o EXCEPT !.promise[a] = "resolved", !.awaited = @ \ {a}]

\* this.connected && this.ws?.readyState === WebSocket.OPEN
AlreadyConnected(o) == o.connected /\ o.ws # 0 /\ o.sock[o.ws] = "open"

\* mutant of InFlight: the lock is not consulted
InFlightNever(o) == FALSE

\* if (this.connecting)
InFlight(o) == o.connecting # 0

\* "Clean up any existing connection"
CleanUp(o) ==
  IF o.ws = 0 THEN o
  ELSE [CloseSocket([o EXCEPT !.listening = @ \ {o.ws}, !.closeHandled = @ \ {o.ws}],
                    o.ws)
          EXCEPT !.ws = 0]

\* the executor of the new promise and the assignment to this.connecting.
\* throws: new URL or new WebSocket throws; the catch sets connecting to null
\* and rejects, and then the rejected promise is assigned to this.connecting.
NewAttempt(o, throws) ==
  LET a == o.attempts + 1
      c == [CleanUp(o) EXCEPT !.attempts = a]
  IN  IF throws
        THEN [c EXCEPT !.promise[a] = "rejected", !.connecting = a]
        ELSE [c EXCEPT !.sock[a] = "connecting", !.ws = a,
                       !.listening = @ \cup {a}, !.closeHandled = @ \cup {a},
                       !.timer = @ \cup {a}, !.promise[a] = "pending",
                       !.connecting = a]

OpensSocket(o) == ~AlreadyConnected(o) /\ ~InFlight(o)

\* the promise connect() resolves its result with, 0 if it returns at once
Returned(o) ==
  IF AlreadyConnected(o) THEN 0 ELSE IF InFlight(o) THEN o.connecting ELSE o.attempts + 1

AfterConnect(o, throws) == IF OpensSocket(o) THEN NewAttempt(o, throws) ELSE o

CallOf(o, via, throws) ==
  [n |-> o.call.n + 1, via |-> via, returned |-> Returned(o),
   immediate |-> AlreadyConnected(o), opened |-> OpensSocket(o) /\ ~throws]

\* connect(), called by a user of the client
Connect(throws) ==
  /\ oc.call.n < MaxCalls
  /\ IF OpensSocket(oc) THEN oc.attempts < MaxAttempts ELSE ~throws
  /\ oc' = [AfterConnect(oc, throws) EXCEPT !.call = CallOf(oc, "caller", throws)]

\* the setTimeout callback of scheduleReconnect: await this.connect(), and
\* scheduleReconnect() when it rejects
ReconnectFires(throws) ==
  /\ oc.reconnectTimer
  /\ oc.call.n < MaxCalls
  /\ IF OpensSocket(oc) THEN oc.attempts < MaxAttempts ELSE ~throws
  /\ LET o1 == [oc EXCEPT !.reconnectTimer = FALSE]
         o2 == [AfterConnect(o1, throws) EXCEPT !.call = CallOf(o1, "timer", throws)]
         p  == Returned(o1)
     IN  oc' = IF p = 0 THEN o2
               ELSE IF o2.promise[p] = "rejected" THEN ScheduleReconnect(o2)
               ELSE IF o2.promise[p] = "pending" THEN [o2 EXCEPT !.awaited = @ \cup {p}]
               ELSE o2

\* the connectionTimeout callback of attempt a, 10 s after connect()
ConnectionTimeout(a) ==
  /\ a \in oc.timer
  /\ oc' = LET o1 == [oc EXCEPT !.timer = @ \ {a}]
           IN  IF ~oc.connected THEN RejectAttempt(CloseSocket(o1, a), a) ELSE o1

\* the socket s opens; ws.onopen clears the connection timeout
OnOpen(s) ==
  /\ oc.sock[s] = "connecting"
  /\ oc' = [oc EXCEPT !.sock[s] = "open",
                       !.timer = IF s \in oc.listening THEN @ \ {s} ELSE @]

\* ws.onmessage with a connect.challenge event: the response handler is put
\* into pendingRequests and the connect request is sent on this.ws
OnChallenge(s) ==
  /\ oc.sock[s] = "open"
  /\ s \in oc.listening
  /\ oc.ws = s
  /\ s \notin oc.authPending
  /\ oc.promise[s] = "pending"
  /\ oc' = [oc EXCEPT !.authPending = @ \cup {s}]

\* ws.onmessage with the response to the connect request: handleMessage
\* takes the handler out of pendingRequests and calls its resolve (ok) or
\* its reject
OnAuthResponse(s, ok) ==
  /\ oc.sock[s] = "open"
  /\ s \in oc.listening
  /\ s \in oc.authPending
  /\ oc' = LET o1 == [oc EXCEPT !.authPending = @ \ {s}]
           IN  IF ok
                 THEN ResolveAttempt([o1 EXCEPT !.connected = TRUE,
                                                !.authenticated = TRUE,
                                                !.connecting = 0], s)
                 ELSE LET o2 == [o1 EXCEPT !.connecting = 0]
                      IN  RejectAttempt(IF o2.ws = 0 THEN o2 ELSE CloseSocket(o2, o2.ws),
                                        s)

\* ws.onerror; the socket emits 'close' after 'error'
OnError(s) ==
  /\ oc.sock[s] \in {"connecting", "open"}
  /\ oc' = LET o1 == [oc EXCEPT !.sock[s] = "closing"]
           IN  IF s \notin oc.listening THEN o1
               ELSE LET o2 == [o1 EXCEPT !.timer = @ \ {s}]
                    IN  IF ~oc.connected
                          THEN RejectAttempt([o2 EXCEPT !.connecting = 0], s)
                          ELSE o2

\* ws.onclose: the socket is closed by the peer, or its close completes
OnClose(s) ==
  /\ oc.sock[s] \in {"open", "closing"}
  /\ oc' = LET o1 == [oc EXCEPT !.sock[s] = "closed"]
           IN  IF s \notin oc.closeHandled THEN o1
               ELSE LET o2 == [o1 EXCEPT !.timer = @ \ {s}, !.connected = FALSE,
                                         !.authenticated = FALSE, !.connecting = 0]
                    IN  IF oc.autoReconnect /\ oc.connected
                          THEN ScheduleReconnect(o2)
                          ELSE o2

\* disconnect()
Disconnect ==
  /\ oc.attempts > 0
  /\ oc.autoReconnect
  /\ oc' = LET o1 == [oc EXCEPT !.autoReconnect = FALSE, !.reconnectTimer = FALSE]
               o2 == IF o1.ws = 0 THEN o1
                     ELSE [CloseSocket([o1 EXCEPT !.closeHandled = @ \ {o1.ws}], o1.ws)
                             EXCEPT !.ws = 0]
           IN  [o2 EXCEPT !.connected = FALSE, !.authenticated = FALSE,
                          !.connecting = 0]

\* ------------------------------------------------------------ specification
NoBatch == [todo |-> {}, n |-> 0, free |-> 0, returned |-> 0, capacityErr |-> 0,
            otherErr |-> 0, inserted |-> 0]

NoRequest ==
  [via |-> "", prompt |-> "", cli_type |-> "", project_dir |-> NoDir, response |-> 0]

Controllers == {"c1", "c2", "c3"}

\* ------------------------------------------------------------- SSE events
\* An event is its type and the fields of its payload that the engine sets
\* or the dispatcher reads; "", 0 and <<>> stand for an absent field.
NoEvent ==
  [type |-> "", id |-> "", runId |-> 0, taskId |-> "", status |-> "",
   previous_status |-> "", workspace_id |-> "", workspaceId |-> "", output |-> <<>>]

\* tasks.workspace_id of a task, "" if there is no such task
TaskWorkspace(t) == IF t \in Tasks THEN "default" ELSE ""

\* { type: 'run_status_changed', payload: { runId, taskId, status } }
RunStatusChanged(r, t, st) ==
  [NoEvent EXCEPT !.type = "run_status_changed", !.runId = r, !.taskId = t,
                  !.status = st]

\* { type: 'run_output', payload: { runId, taskId, output: text } }
RunOutput(r, t, text) ==
  [NoEvent EXCEPT !.type = "run_output", !.runId = r, !.taskId = t, !.output = text]

\* { type: 'task_updated', payload: task } with the row of the task
TaskUpdated(t, st) ==
  [NoEvent EXCEPT !.type = "task_updated", !.id = t, !.status = st,
                  !.workspace_id = TaskWorkspace(t)]

\* `sent` records the operation of the broadcaster performed last: for a
\* broadcast the controllers it called enqueue on, in order, those that took
\* the event, those whose enqueue threw, and whether broadcast itself threw;
\* count is the number of broadcasts so far, dropped the controllers a
\* broadcast removed and nobody registered since, log the events of all
\* broadcasts so far
NoBroadcast == [op |-> "", client |-> "", event |-> NoEvent, attempted |-> <<>>,
                delivered |-> <<>>, failed |-> {}, threw |-> FALSE, count |-> 0,
                dropped |-> {}, log |-> <<>>]

\* `discord` records what the notification dispatcher did: the calls of
\* notifyDiscord, each with the position in sent.log of the event it is
\* for, the number of webhook requests in flight, the number of errors
\* written to the console, the events whose workspace lookup failed, and
\* whether an error left the dispatcher
NoDiscord == [calls |-> <<>>, pending |-> 0, errors |-> 0, lookupFailed |-> {},
              crashed |-> FALSE]

Init ==
  /\ variant \in Variants
  /\ runs = <<>>
  /\ taskStatus = [t \in Tasks |-> "inbox"]
  /\ activeProcesses = {}
  /\ proc = [r \in RunIds |-> "none"]
  /\ timers = [r \in RunIds |-> 0]
  /\ budget = [runs |-> MaxRuns, timers |-> MaxTimers, errors |-> MaxErrors,
               restarts |-> MaxRestarts, throws |-> MaxSpawnThrows]
  /\ last = NoOp
  /\ batch = NoBatch
  /\ req = NoRequest
  /\ fullOutput = [r \in RunIds |-> <<>>]
  /\ emitted = [r \in RunIds |-> <<>>]
  /\ clients = <<>>
  /\ closed = {}
  /\ inbox = [c \in Controllers |-> <<>>]
  /\ sent = NoBroadcast
  /\ discord = NoDiscord
  /\ mig = NoMigrations
  /\ oc = NoClient

Next ==
  \/ \E t \in Tasks, outcome \in SpawnOutcomes :
       StartRun(t, NoDir, "text", "claude", outcome) /\ UNCHANGED others
  \/ \E r \in RunIds, code \in AllCloseCodes : CloseEvent(r, code) /\ UNCHANGED others
  \/ \E r \in RunIds : SpawnErrorEvent(r) /\ UNCHANGED others
  \/ \E r \in RunIds, killFails \in BOOLEAN :
       CancelRun(r, killFails) /\ UNCHANGED others
  \/ \E r \in RunIds, killFails \in BOOLEAN :
       KillTimer(r, killFails) /\ UNCHANGED others
  \/ \E t \in Tasks, launchFails \in BOOLEAN :
       LaunchInITerm2(t, NoDir, "text", "claude", launchFails) /\ UNCHANGED others
  \/ \E r \in RunIds : CancelRunInteractive(r) /\ UNCHANGED others
  \/ \E r \in RunIds : MarkRunComplete(r) /\ UNCHANGED others
  \/ Restart /\ UNCHANGED others

Spec == Init /\ [][Next]_vars

\* the captured runner on more runs: admission under start, close, error,
\* cancel and escalation-timer interleavings
InitWide ==
  /\ variant = "captured"
  /\ runs = <<>>
  /\ taskStatus = [t \in Tasks |-> "inbox"]
  /\ activeProcesses = {}
  /\ proc = [r \in RunIds |-> "none"]
  /\ timers = [r \in RunIds |-> 0]
  /\ budget = [runs |-> WideRuns, timers |-> WideTimers, errors |-> WideErrors,
               restarts |-> 0, throws |-> 0]
  /\ last = NoOp
  /\ batch = NoBatch
  /\ req = NoRequest
  /\ fullOutput = [r \in RunIds |-> <<>>]
  /\ emitted = [r \in RunIds |-> <<>>]
  /\ clients = <<>>
  /\ closed = {}
  /\ inbox = [c \in Controllers |-> <<>>]
  /\ sent = NoBroadcast
  /\ discord = NoDiscord
  /\ mig = NoMigrations
  /\ oc = NoClient

NextWide ==
  \/ \E t \in Tasks, outcome \in {"ok", "fails"} :
       StartRun(t, NoDir, "text", "claude", outcome) /\ UNCHANGED others
  \/ \E r \in RunIds, code \in AllCloseCodes : CloseEvent(r, code) /\ UNCHANGED others
  \/ \E r \in RunIds : SpawnErrorEvent(r) /\ UNCHANGED others
  \/ \E r \in RunIds, killFails \in BOOLEAN :
       CancelRun(r, killFails) /\ UNCHANGED others
  \/ \E r \in RunIds, killFails \in BOOLEAN :
       KillTimer(r, killFails) /\ UNCHANGED others

SpecWide == InitWide /\ [][NextWide]_vars

\* the captured runner with the output of its processes
InitOutput ==
  /\ variant = "captured"
  /\ runs = <<>>
  /\ taskStatus = [t \in Tasks |-> "inbox"]
  /\ activeProcesses = {}
  /\ proc = [r \in RunIds |-> "none"]
  /\ timers = [r \in RunIds |-> 0]
  /\ budget = [runs |-> OutputRuns, timers |-> MaxTimers, errors |-> MaxErrors,
               restarts |-> 0, throws |-> 0]
  /\ last = NoOp
  /\ batch = NoBatch
  /\ req = NoRequest
  /\ fullOutput = [r \in RunIds |-> <<>>]
  /\ emitted = [r \in RunIds |-> <<>>]
  /\ clients = <<>>
  /\ closed = {}
  /\ inbox = [c \in Controllers |-> <<>>]
  /\ sent = NoBroadcast
  /\ discord = NoDiscord
  /\ mig = NoMigrations
  /\ oc = NoClient

NextOutput ==
  \/ \E outcome \in {"ok", "fails"} :
       StartRun("t1", NoDir, "text", "claude", outcome) /\ UNCHANGED others
  \/ \E r \in RunIds, text \in Chunks :
       HandleData(r, text) /\ UNCHANGED <<oc, mig, batch, req, sseVars>>
  \/ \E r \in RunIds, code \in AllCloseCodes : CloseEvent(r, code) /\ UNCHANGED others
  \/ \E r \in RunIds : SpawnErrorEvent(r) /\ UNCHANGED others
  \/ \E r \in RunIds : CancelRun(r, FALSE) /\ UNCHANGED others

SpecOutput == InitOutput /\ [][NextOutput]_vars

\* ------------------------------------------------------- SSE broadcaster
Events == {RunStatusChanged(1, "t1", "cancelled"), TaskUpdated("t1", "review")}

Range(q) == {q[i] : i \in 1..Len(q)}

\* clients.delete(c)
Without(q, c) == SelectSeq(q, LAMBDA x : x # c)

\* registerClient: clients.add(controller)
RegisterClient(c) ==
  /\ clients' = IF c \in Range(clients) THEN clients ELSE Append(clients, c)
  /\ sent' = [sent EXCEPT !.op = "registerClient", !.client = c, !.event = NoEvent,
                          !.attempted = <<>>, !.delivered = <<>>, !.failed = {},
                          !.threw = FALSE, !.dropped = @ \ {c}]
  /\ UNCHANGED <<closed, inbox, discord>>

\* unregisterClient: clients.delete(controller)
UnregisterClient(c) ==
  /\ clients' = Without(clients, c)
  /\ sent' = [sent EXCEPT !.op = "unregisterClient", !.client = c, !.event = NoEvent,
                          !.attempted = <<>>, !.delivered = <<>>, !.failed = {},
                          !.threw = FALSE]
  /\ UNCHANGED <<closed, inbox, discord>>

\* the stream of a controller is closed or errored (the browser went away):
\* from now on its enqueue throws
CloseStream(c) ==
  /\ c \notin closed
  /\ closed' = closed \cup {c}
  /\ UNCHANGED <<clients, inbox, sent, discord>>

EnqueueThrows(c) == c \in closed

\* mutants of OnEnqueueError: the error is not caught; the client is not deleted
OnEnqueueErrorRethrow(st, c) ==
  [st EXCEPT !.attempted = Append(@, c), !.failed = @ \cup {c}, !.threw = TRUE]

OnEnqueueErrorKeep(st, c) ==
  [st EXCEPT !.attempted = Append(@, c), !.failed = @ \cup {c}]

\* the catch block of the loop: clients.delete(client)
OnEnqueueError(st, c) ==
  [st EXCEPT !.attempted = Append(@, c), !.failed = @ \cup {c},
             !.clients = Without(@, c)]

\* for (const client of clientsArray) { try { client.enqueue(encoded) } ... },
\* from position i of the array on
RECURSIVE BroadcastLoop(_, _, _)
BroadcastLoop(clientsArray, i, st) ==
  IF i > Len(clientsArray) \/ st.threw THEN st
  ELSE LET c == clientsArray[i] IN
       BroadcastLoop(clientsArray, i + 1,
                     IF EnqueueThrows(c)
                       THEN OnEnqueueError(st, c)
                       ELSE [st EXCEPT !.attempted = Append(@, c),
                                       !.delivered = Append(@, c)])

\* mutant of Enqueue: the chunk is put in front of the queued ones
EnqueueFront(q, encoded) == <<encoded>> \o q

\* controller.enqueue(encoded) on a stream that takes it
Enqueue(q, encoded) == Append(q, encoded)

\* -------------------------------------------------- notification dispatcher
VALID_EVENT_TYPES ==
  {"task_created", "task_status_changed", "run_started", "run_completed",
   "run_failed", "deliverable_added"}

\* mutant of RunEventType: every terminal status but completed is a failure
RunEventTypeCancelledFails(status) ==
  IF status \in {"running", "launched"} THEN "run_started"
  ELSE IF status = "completed" THEN "run_completed"
  ELSE IF status \in {"failed", "cancelled"} THEN "run_failed"
  ELSE ""

\* discordEventType of a run_status_changed event, "" for undefined
RunEventType(status) ==
  IF status \in {"running", "launched"} THEN "run_started"
  ELSE IF status = "completed" THEN "run_completed"
  ELSE IF status = "failed" THEN "run_failed"
  ELSE ""

\* discordEventType after the switch of triggerDiscordNotification (the
\* deliverable_added case is left out: no event of that type is modelled)
DiscordEventType(event) ==
  IF event.type = "task_created" THEN "task_created"
  ELSE IF event.type = "task_updated"
    THEN IF /\ event.status # ""
            /\ event.previous_status # ""
            /\ event.status # event.previous_status
           THEN "task_status_changed"
           ELSE ""
  ELSE IF event.type = "run_status_changed" THEN RunEventType(event.status)
  ELSE ""

\* the dispatcher asks the tasks table for the workspace of the event
NeedsLookup(event) ==
  event.type = "run_status_changed" /\ event.workspaceId = "" /\ event.taskId # ""

\* workspaceId after the switch, "" for undefined; a lookup that throws is
\* ignored
WorkspaceId(event, lookupFails) ==
  IF event.type \in {"task_created", "task_updated"} THEN event.workspace_id
  ELSE IF event.type = "run_status_changed"
    THEN IF NeedsLookup(event)
           THEN IF lookupFails THEN "" ELSE TaskWorkspace(event.taskId)
           ELSE event.workspaceId
  ELSE ""

\* what notifyDiscord meets: a webhook it posts to, no webhook, a disabled
\* notification, or an exception before the request is made
NotifyCases == {"fetch", "no_webhook", "disabled", "throws"}

\* mutant of OnNotifyError: the error leaves notifyDiscord and the dispatcher
OnNotifyErrorRethrow(d) == [d EXCEPT !.crashed = TRUE]

\* the catch block of notifyDiscord: console.error
OnNotifyError(d) == [d EXCEPT !.errors = @ + 1]

\* notifyDiscord(workspaceId, eventType, payload) for the n'th event
NotifyDiscord(d, n, workspaceId, eventType, notify) ==
  LET called == [d EXCEPT !.calls = Append(@, [n |-> n, workspaceId |-> workspaceId,
                                                eventType |-> eventType])]
  IN  IF eventType \notin VALID_EVENT_TYPES THEN called
      ELSE IF notify \in {"disabled", "no_webhook"} THEN called
      ELSE IF notify = "throws" THEN OnNotifyError(called)
      ELSE [called EXCEPT !.pending = @ + 1]

\* triggerDiscordNotification(event) for the n'th event
TriggerDiscordNotification(d, n, event, lookupFails, notify) ==
  LET workspaceId == WorkspaceId(event, lookupFails)
      discordEventType == DiscordEventType(event)
      looked == IF NeedsLookup(event) /\ lookupFails
                  THEN [d EXCEPT !.lookupFailed = @ \cup {n}]
                  ELSE d
  IN  IF workspaceId # "" /\ discordEventType # ""
        THEN NotifyDiscord(looked, n, workspaceId, discordEventType, notify)
        ELSE looked

\* the response of a webhook request arrives, or the request fails
FetchSettles(outcome) ==
  /\ discord.pending > 0
  /\ discord' = IF outcome = "ok" THEN [discord EXCEPT !.pending = @ - 1]
                ELSE IF outcome = "http_error"
                  THEN [discord EXCEPT !.pending = @ - 1, !.errors = @ + 1]
                ELSE OnNotifyError([discord EXCEPT !.pending = @ - 1])
  /\ UNCHANGED <<clients, closed, inbox, sent>>

\* broadcast(event) on the state st of the broadcaster: the loop over the
\* clients, then the dispatcher
BroadcastOn(st, event, lookupFails, notify) ==
  LET loop == BroadcastLoop(st.clients, 1,
                            [clients |-> st.clients, attempted |-> <<>>,
                             delivered |-> <<>>, failed |-> {}, threw |-> FALSE])
      n == Len(st.sent.log) + 1
  IN  [clients |-> loop.clients,
       inbox |-> [c \in Controllers |->
                    IF c \in Range(loop.delivered) THEN Enqueue(st.inbox[c], event)
                    ELSE st.inbox[c]],
       sent |-> [op |-> "broadcast", client |-> "", event |-> event,
                 attempted |-> loop.attempted, delivered |-> loop.delivered,
                 failed |-> loop.failed, threw |-> loop.threw,
                 count |-> st.sent.count + 1,
                 dropped |-> st.sent.dropped
                               \cup (Range(st.clients) \ Range(loop.clients)),
                 log |-> Append(st.sent.log, event)],
       discord |-> IF loop.threw THEN st.discord
                   ELSE TriggerDiscordNotification(st.discord, n, event, lookupFails,
                                                   notify)]

\* the broadcasts of the events of a sequence, one after the other
RECURSIVE BroadcastAll(_, _, _, _)
BroadcastAll(st, events, lookupFails, notify) ==
  IF events = <<>> THEN st
  ELSE BroadcastAll(BroadcastOn(st, Head(events), lookupFails, notify), Tail(events),
                    lookupFails, notify)

\* the broadcasts of events by a caller
Publish(events, lookupFails, notify) ==
  LET st == BroadcastAll([clients |-> clients, inbox |-> inbox, sent |-> sent,
                          discord |-> discord], events, lookupFails, notify)
  IN  /\ clients' = st.clients
      /\ inbox' = st.inbox
      /\ sent' = st.sent
      /\ discord' = st.discord
      /\ UNCHANGED closed

\* broadcast(event)
Broadcast(event) ==
  /\ sent.count < MaxBroadcasts
  /\ Publish(<<event>>, FALSE, "fetch")

InitSSE ==
  /\ variant = "captured"
  /\ runs = <<>>
  /\ taskStatus = [t \in Tasks |-> "inbox"]
  /\ activeProcesses = {}
  /\ proc = [r \in RunIds |-> "none"]
  /\ timers = [r \in RunIds |-> 0]
  /\ budget = [runs |-> 0, timers |-> 0, errors |-> 0, restarts |-> 0, throws |-> 0]
  /\ last = NoOp
  /\ batch = NoBatch
  /\ req = NoRequest
  /\ fullOutput = [r \in RunIds |-> <<>>]
  /\ emitted = [r \in RunIds |-> <<>>]
  /\ clients = <<>>
  /\ closed = {}
  /\ inbox = [c \in Controllers |-> <<>>]
  /\ sent = NoBroadcast
  /\ discord = NoDiscord
  /\ mig = NoMigrations
  /\ oc = NoClient

runnerVars == <<variant, runs, taskStatus, activeProcesses, proc, timers, budget, last>>

NextSSE ==
  \/ \E c \in Controllers :
       RegisterClient(c) /\ UNCHANGED <<oc, mig, runnerVars, batch, req, outputVars>>
  \/ \E c \in Controllers :
       UnregisterClient(c) /\ UNCHANGED <<oc, mig, runnerVars, batch, req, outputVars>>
  \/ \E c \in Controllers :
       CloseStream(c) /\ UNCHANGED <<oc, mig, runnerVars, batch, req, outputVars>>
  \/ \E event \in Events :
       Broadcast(event) /\ UNCHANGED <<oc, mig, runnerVars, batch, req, outputVars>>

SpecSSE == InitSSE /\ [][NextSSE]_vars

\* --------------------------------- the runner, its subscribers, the dispatcher
\* the events an operation with the record l broadcast, in order, for the run
\* r of task t; text is the chunk of a 'data' event
FxEvents(l, r, t, text) ==
  LET at == SelectSeq([i \in 1..Len(l.fx) |-> i], LAMBDA i : l.fx[i][1] = "broadcast")
  IN  [k \in 1..Len(at) |->
         LET i == at[k]
             what == l.fx[i][2]
         IN  IF what = "task_updated" THEN TaskUpdated(t, l.fx[i - 1][2])
             ELSE IF what = "run_output" THEN RunOutput(r, t, text)
             ELSE RunStatusChanged(r, t, what)]

\* the broadcasts of the operation that is being performed reach the
\* subscribers and the dispatcher
Published(text, lookupFails, notify) ==
  LET r == IF last'.run # 0 THEN last'.run ELSE Len(runs')
      t == IF r = 0 THEN "" ELSE runs'[r].task_id
  IN  Publish(FxEvents(last', r, t, text), lookupFails, notify)

\* events that other modules of the server broadcast: a task whose status a
\* request changed or left alone, a run of a task that is gone, a run
\* event that names its workspace, the start of an interactive run
StreamEvents ==
  {[TaskUpdated("t2", "done") EXCEPT !.previous_status = "review"],
   [TaskUpdated("t2", "done") EXCEPT !.previous_status = "done"],
   RunStatusChanged(2, "gone", "failed"),
   [RunStatusChanged(2, "gone", "completed") EXCEPT !.workspaceId = "w9"],
   RunStatusChanged(2, "t2", "launched"),
   RunStatusChanged(2, "t2", "pending")}

StreamControllers == {"c1"}

StreamChunks == {<<"a">>, <<"b">>}

InitStream ==
  /\ variant = "captured"
  /\ runs = <<>>
  /\ taskStatus = [t \in Tasks |-> "inbox"]
  /\ activeProcesses = {}
  /\ proc = [r \in RunIds |-> "none"]
  /\ timers = [r \in RunIds |-> 0]
  /\ budget = [runs |-> StreamRuns, timers |-> StreamTimers, errors |-> 0,
               restarts |-> 0, throws |-> 0]
  /\ last = NoOp
  /\ batch = NoBatch
  /\ req = NoRequest
  /\ fullOutput = [r \in RunIds |-> <<>>]
  /\ emitted = [r \in RunIds |-> <<>>]
  /\ clients = <<>>
  /\ closed = {}
  /\ inbox = [c \in Controllers |-> <<>>]
  /\ sent = NoBroadcast
  /\ discord = NoDiscord
  /\ mig = NoMigrations
  /\ oc = NoClient

NextStream ==
  \/ /\ StartRun("t1", NoDir, "text", "claude", "ok")
     /\ Published(<<>>, FALSE, "fetch")
     /\ UNCHANGED <<oc, mig, batch, req, outputVars>>
  \/ \E r \in RunIds, text \in StreamChunks :
       /\ Len(emitted[r]) < StreamEmitted
       /\ HandleData(r, text)
       /\ Published(text, FALSE, "fetch")
       /\ UNCHANGED <<oc, mig, batch, req>>
  \/ \E r \in RunIds, code \in ExitCodes :
       /\ CloseEvent(r, code)
       /\ Published(<<>>, FALSE, "fetch")
       /\ UNCHANGED <<oc, mig, batch, req, outputVars>>
  \/ \E r \in RunIds :
       /\ CancelRun(r, FALSE)
       /\ Published(<<>>, FALSE, "fetch")
       /\ UNCHANGED <<oc, mig, batch, req, outputVars>>
  \/ \E r \in RunIds :
       /\ KillTimer(r, FALSE)
       /\ Published(<<>>, FALSE, "fetch")
       /\ UNCHANGED <<oc, mig, batch, req, outputVars>>
  \/ FetchSettles("ok") /\ UNCHANGED <<oc, mig, runnerVars, batch, req, outputVars>>
  \/ \E c \in StreamControllers :
       RegisterClient(c) /\ UNCHANGED <<oc, mig, runnerVars, batch, req, outputVars>>
  \/ \E c \in StreamControllers :
       UnregisterClient(c) /\ UNCHANGED <<oc, mig, runnerVars, batch, req, outputVars>>
  \/ \E c \in StreamControllers :
       CloseStream(c) /\ UNCHANGED <<oc, mig, runnerVars, batch, req, outputVars>>

SpecStream == InitStream /\ [][NextStream]_vars

\* the runner with one subscriber, the broadcasts of other modules and every
\* case the dispatcher can meet
InitDispatch == InitStream

NextDispatch ==
  \/ \E lookupFails \in BOOLEAN, notify \in NotifyCases :
       /\ StartRun("t1", NoDir, "text", "claude", "ok")
       /\ Published(<<>>, lookupFails, notify)
       /\ UNCHANGED <<oc, mig, batch, req, outputVars>>
  \/ \E r \in RunIds, code \in ExitCodes, lookupFails \in BOOLEAN, notify \in NotifyCases :
       /\ CloseEvent(r, code)
       /\ Published(<<>>, lookupFails, notify)
       /\ UNCHANGED <<oc, mig, batch, req, outputVars>>
  \/ \E r \in RunIds :
       /\ CancelRun(r, FALSE)
       /\ Published(<<>>, FALSE, "fetch")
       /\ UNCHANGED <<oc, mig, batch, req, outputVars>>
  \/ \E r \in RunIds :
       /\ KillTimer(r, FALSE)
       /\ Published(<<>>, FALSE, "fetch")
       /\ UNCHANGED <<oc, mig, batch, req, outputVars>>
  \/ \E event \in StreamEvents, lookupFails \in BOOLEAN, notify \in NotifyCases :
       /\ sent.count < StreamBroadcasts
       /\ Publish(<<event>>, lookupFails, notify)
       /\ UNCHANGED <<oc, mig, runnerVars, batch, req, outputVars>>
  \/ \E outcome \in {"ok", "http_error", "rejects"} :
       FetchSettles(outcome) /\ UNCHANGED <<oc, mig, runnerVars, batch, req, outputVars>>
  \/ RegisterClient("c1") /\ UNCHANGED <<oc, mig, runnerVars, batch, req, outputVars>>
  \/ CloseStream("c1") /\ UNCHANGED <<oc, mig, runnerVars, batch, req, outputVars>>

SpecDispatch == InitDispatch /\ [][NextDispatch]_vars

\* ------------------------------------------------- startRun and its route
\* startRun as exported by the deployed runner.  For the interactive runner
\* outcome "throws" is a failing osascript.
StartRunOf(t, project_dir, prompt, cli_type, outcome) ==
  IF variant = "captured"
    THEN StartRun(t, project_dir, prompt, cli_type, outcome)
    ELSE /\ outcome \in {"ok", "throws"}
         /\ LaunchInITerm2(t, project_dir, prompt, cli_type, outcome = "throws")

\* startRun called with the given options by any caller
DirectCall(t, project_dir, prompt, cli_type, outcome) ==
  /\ StartRunOf(t, project_dir, prompt, cli_type, outcome)
  /\ req' = [via |-> "startRun", prompt |-> prompt, cli_type |-> cli_type,
             project_dir |-> project_dir, response |-> 0]
  /\ UNCHANGED <<oc, mig, batch, outputVars, sseVars>>

\* the route answers without calling startRun
Respond(prompt, cli_type, code) ==
  /\ req' = [via |-> "POST", prompt |-> prompt, cli_type |-> cli_type,
             project_dir |-> NoDir, response |-> code]
  /\ UNCHANGED <<variant, runs, taskStatus, activeProcesses, proc, timers, budget,
                 last, batch, outputVars, sseVars, mig, oc>>

\* getActiveRunForTask of the deployed runner
GetActiveRunForTask(t) ==
  IF variant = "captured" THEN TaskHasActiveRun(t) ELSE TaskHasActiveRunInteractive(t)

\* the status the route gives to what startRun returned or threw
ResponseFor(l) ==
  IF l.ret # "throw" THEN 201 ELSE IF l.errName = "RunValidationError" THEN 422 ELSE 500

TaskIds == Tasks \cup {"unknown"}

\* POST /api/tasks/[id]/run with the body {prompt, cli_type}
PostRun(t, prompt, cli_type, outcome) ==
  IF prompt \in {"missing", "empty"} THEN Respond(prompt, cli_type, 400)
  ELSE IF cli_type # "missing" /\ cli_type \notin SupportedCli
    THEN Respond(prompt, cli_type, 400)
  ELSE IF t \notin Tasks THEN Respond(prompt, cli_type, 404)
  ELSE IF GetActiveRunForTask(t) THEN Respond(prompt, cli_type, 409)
  ELSE /\ StartRunOf(t, NoDir, prompt,
                     IF cli_type = "missing" THEN "claude" ELSE cli_type, outcome)
       /\ req' = [via |-> "POST", prompt |-> prompt, cli_type |-> cli_type,
                  project_dir |-> NoDir, response |-> ResponseFor(last')]
       /\ UNCHANGED <<oc, mig, batch, outputVars, sseVars>>

InitOptions ==
  /\ variant \in Variants
  /\ runs = <<>>
  /\ taskStatus = [t \in Tasks |-> "inbox"]
  /\ activeProcesses = {}
  /\ proc = [r \in RunIds |-> "none"]
  /\ timers = [r \in RunIds |-> 0]
  /\ budget = [runs |-> OptionRuns, timers |-> 0, errors |-> 0, restarts |-> 0,
               throws |-> MaxSpawnThrows]
  /\ last = NoOp
  /\ batch = NoBatch
  /\ req = NoRequest
  /\ fullOutput = [r \in RunIds |-> <<>>]
  /\ emitted = [r \in RunIds |-> <<>>]
  /\ clients = <<>>
  /\ closed = {}
  /\ inbox = [c \in Controllers |-> <<>>]
  /\ sent = NoBroadcast
  /\ discord = NoDiscord
  /\ mig = NoMigrations
  /\ oc = NoClient

NextOptions ==
  \/ \E t \in Tasks, prompt \in Prompts, cli_type \in CliTypes,
        outcome \in {"ok", "throws"} : DirectCall(t, NoDir, prompt, cli_type, outcome)
  \/ \E t \in TaskIds, prompt \in Prompts, cli_type \in CliTypes,
        outcome \in {"ok", "throws"} : PostRun(t, prompt, cli_type, outcome)
  \/ \E r \in RunIds, code \in ExitCodes : CloseEvent(r, code) /\ UNCHANGED others
  \/ \E r \in RunIds : MarkRunComplete(r) /\ UNCHANGED others

SpecOptions == InitOptions /\ [][NextOptions]_vars

\* -------------------------------------------- startRun with a project_dir
InitDirs ==
  /\ variant \in Variants
  /\ runs = <<>>
  /\ taskStatus = [t \in Tasks |-> "inbox"]
  /\ activeProcesses = {}
  /\ proc = [r \in RunIds |-> "none"]
  /\ timers = [r \in RunIds |-> 0]
  /\ budget = [runs |-> DirRuns, timers |-> 0, errors |-> 0, restarts |-> 0,
               throws |-> MaxSpawnThrows]
  /\ last = NoOp
  /\ batch = NoBatch
  /\ req = NoRequest
  /\ fullOutput = [r \in RunIds |-> <<>>]
  /\ emitted = [r \in RunIds |-> <<>>]
  /\ clients = <<>>
  /\ closed = {}
  /\ inbox = [c \in Controllers |-> <<>>]
  /\ sent = NoBroadcast
  /\ discord = NoDiscord
  /\ mig = NoMigrations
  /\ oc = NoClient

NextDirs ==
  \/ \E t \in Tasks, project_dir \in ProjectDirs \cup {NoDir},
        outcome \in {"ok", "throws"} :
       DirectCall(t, project_dir, "text", "claude", outcome)
  \/ \E r \in RunIds, code \in ExitCodes : CloseEvent(r, code) /\ UNCHANGED others
  \/ \E r \in RunIds : MarkRunComplete(r) /\ UNCHANGED others

SpecDirs == InitDirs /\ [][NextDirs]_vars

\* ---------------------------------------------- concurrent startRun calls
\* POST /api/tasks/[id]/run for each task of S arrives while no other event
\* is handled: the route finds no active run for the task and calls startRun.
\* free is the number of free slots when the batch begins.
BeginBatch(S) ==
  /\ batch.n = 0
  /\ S # {}
  /\ \A t \in S : ~TaskHasActiveRun(t)
  /\ batch' = [NoBatch EXCEPT !.todo = S, !.n = Cardinality(S),
                              !.free = MAX_CONCURRENT - ActiveCount]
  /\ UNCHANGED <<variant, runs, taskStatus, activeProcesses, proc, timers, budget,
                 last, req, outputVars, sseVars, mig, oc>>

\* one startRun call of the batch, and the tally of its outcome
BatchCall(t, outcome) ==
  /\ t \in batch.todo
  /\ StartRun(t, NoDir, "text", "claude", outcome)
  /\ batch' = [batch EXCEPT
       !.todo = @ \ {t},
       !.returned = @ + (IF last'.ret # "throw" THEN 1 ELSE 0),
       !.capacityErr = @ + (IF last'.errMsg = CapacityMsg THEN 1 ELSE 0),
       !.otherErr = @ + (IF last'.ret = "throw" /\ last'.errMsg # CapacityMsg
                          THEN 1 ELSE 0),
       !.inserted = @ + (Len(runs') - Len(runs))]
  /\ UNCHANGED <<oc, mig, req, outputVars, sseVars>>

InitBatch ==
  /\ variant = "captured"
  /\ runs = <<>>
  /\ taskStatus = [t \in Tasks |-> "inbox"]
  /\ activeProcesses = {}
  /\ proc = [r \in RunIds |-> "none"]
  /\ timers = [r \in RunIds |-> 0]
  /\ budget = [runs |-> WideRuns, timers |-> 0, errors |-> 0, restarts |-> 0,
               throws |-> MaxSpawnThrows]
  /\ last = NoOp
  /\ batch = NoBatch
  /\ req = NoRequest
  /\ fullOutput = [r \in RunIds |-> <<>>]
  /\ emitted = [r \in RunIds |-> <<>>]
  /\ clients = <<>>
  /\ closed = {}
  /\ inbox = [c \in Controllers |-> <<>>]
  /\ sent = NoBroadcast
  /\ discord = NoDiscord
  /\ mig = NoMigrations
  /\ oc = NoClient

NextBatch ==
  \/ \E t \in Tasks : batch.n = 0 /\ StartRun(t, NoDir, "text", "claude", "ok") /\ UNCHANGED others
  \/ \E r \in RunIds, code \in ExitCodes :
       batch.n = 0 /\ CloseEvent(r, code) /\ UNCHANGED others
  \/ \E S \in SUBSET Tasks : BeginBatch(S)
  \/ \E t \in Tasks, outcome \in {"ok", "throws"} : BatchCall(t, outcome)

SpecBatch == InitBatch /\ [][NextBatch]_vars

\* ================================================================== claims
\* positions of an effect in the effects of the last operation
FxPositions(e) == {i \in 1..Len(last.fx) : last.fx[i] = e}

FxHas(e) == FxPositions(e) # {}

FxSignals == {i \in 1..Len(last.fx) : last.fx[i][1] = "signal"}

CountedActive == {r \in 1..Len(runs) : runs[r].status \in {"pending", "running"}}

NonTerminalRunsOf(t) ==
  {r \in 1..Len(runs) : runs[r].task_id = t /\ runs[r].status \in NonTerminal}

\* C1: under every interleaving of startRun, close/error events, cancelRun
\* and the escalation timer, the number of runs in pending or running never
\* exceeds MAX_CONCURRENT.
C1_CapacityNeverExceeded == Cardinality(CountedActive) <= MAX_CONCURRENT

\* all slots are taken and a further startRun was refused for capacity
C1_Witness ==
  /\ Cardinality(CountedActive) = MAX_CONCURRENT
  /\ last.op = "startRun"
  /\ last.errMsg = CapacityMsg

\* C2: every task has at most one run in a non-terminal status (pending,
\* running or launched), in both runner variants.
C2_OneActiveRunPerTask == \A t \in Tasks : Cardinality(NonTerminalRunsOf(t)) <= 1

\* a task has a non-terminal run and a second startRun for it was refused
C2_Witness ==
  /\ last.op = "startRun"
  /\ last.errMsg = ActiveMsg
  /\ Cardinality(NonTerminalRunsOf(last.task)) = 1

C4_TerminalStatusFrozen ==
  (last.run # 0 /\ last.pre \in Terminal) => StatusOf(last.run) = last.pre

BatchDone == batch.n > 0 /\ batch.todo = {}

MinOf(a, b) == IF a < b THEN a ELSE b

C6_RejectedStartRunChangesNothing ==
  [][(last'.op = "startRun" /\ last'.errName = "RunValidationError")
       => /\ runs' = runs
          /\ taskStatus' = taskStatus
          /\ activeProcesses' = activeProcesses
          /\ proc' = proc
          /\ last'.fx = <<>>
          /\ IF variant = "captured" /\ Cardinality(CountedActive) >= MAX_CONCURRENT
               THEN last'.errMsg = CapacityMsg
               ELSE /\ last'.errMsg = ActiveMsg
                    /\ NonTerminalRunsOf(last'.task) # {}]_vars

\* a startRun has just been refused because the task has an active run
C6_Witness ==
  /\ last.op = "startRun"
  /\ last.errName = "RunValidationError"
  /\ last.errMsg = ActiveMsg
  /\ NonTerminalRunsOf(last.task) # {}

\* C7: cancelRun on an id with no run in a non-terminal status returns
\* false, writes nothing, sends no signal and broadcasts nothing.
C7_CancelInactiveIsNoOp ==
  (last.op = "cancelRun" /\ last.pre \notin NonTerminal)
    => (last.ret = "false" /\ last.fx = <<>>)

\* C8: cancelRun on a run with no tracked process and a non-terminal
\* persisted status persists cancelled, sends no signal and returns true.
C8_CancelUntrackedPersists ==
  (last.op = "cancelRun" /\ ~last.tracked /\ last.pre \in NonTerminal)
    => /\ last.ret = "true"
       /\ StatusOf(last.run) = "cancelled"
       /\ FxSignals = {}

\* C9: cancelRun on a run whose process is tracked as live persists
\* cancelled before it sends SIGTERM, and returns true.
C9_PersistBeforeSignal ==
  (last.op = "cancelRun" /\ last.tracked)
    => /\ last.ret = "true"
       /\ FxHas(<<"db", "cancelled">>)
       /\ FxHas(<<"signal", "SIGTERM">>)
       /\ \A i \in FxPositions(<<"signal", "SIGTERM">>) :
            \E j \in FxPositions(<<"db", "cancelled">>) : j < i

\* cancelRun has just been called on a run that was running with a live process
C9_Witness ==
  /\ last.op = "cancelRun"
  /\ last.tracked
  /\ last.pre = "running"

\* C10: when the grace period elapses SIGKILL is sent if and only if the
\* run is still in the live-process map; a process whose close event was
\* handled is not in the map, so it is never sent SIGKILL.
C10_KillOnlyIfStillTracked ==
  /\ last.op = "killTimer" => (FxHas(<<"signal", "SIGKILL">>) <=> last.tracked)
  /\ last.op = "killTimer" => last.run \notin activeProcesses
  /\ \A r \in RunIds : proc[r] = "closed" => r \notin activeProcesses

\* the timer fires after the process exited within the grace period
C10_Witness ==
  /\ last.op = "killTimer"
  /\ proc[last.run] = "closed"
  /\ last.fx = <<>>

\* C11: a successful startRun returns the new run with status pending, the
\* state before the process is spawned.
C11_ReturnsPending ==
  (last.op = "startRun" /\ last.ret # "throw") => last.ret = "pending"

\* the options C12 is about: no or an empty prompt, an unsupported cli_type
InvalidOptions(q) == q.prompt \in {"missing", "empty"} \/ q.cli_type = "other"

\* C12: startRun called with a missing or empty prompt or with a cli_type
\* other than claude and codex throws a validation error, inserts no run
\* record and spawns no process.
C12_InvalidOptionsRejected ==
  (req.via = "startRun" /\ InvalidOptions(req)) =>
    /\ last.op = "startRun"
    /\ last.errName = "RunValidationError"
    /\ last.fx = <<>>

\* what holds instead: the route answers such a request with status 400
\* before it calls startRun, and nothing changes
RouteRejectsInvalidOptions ==
  [][(req'.via = "POST" /\ req' # req /\ InvalidOptions(req'))
       => /\ req'.response = 400
          /\ UNCHANGED <<runs, taskStatus, activeProcesses, proc, last>>]_vars

\* C13: the accumulated output of a run, and the output stored for it, are
\* never longer than MAX_OUTPUT_SIZE.
C13_OutputWithinCeiling ==
  \A r \in 1..Len(runs) :
    /\ Len(fullOutput[r]) <= MAX_OUTPUT_SIZE
    /\ Len(runs[r].output) <= MAX_OUTPUT_SIZE

\* C14: when the process wrote more than MAX_OUTPUT_SIZE characters in all,
\* the accumulated output is the truncation marker followed by the last
\* MAX_OUTPUT_SIZE characters written; otherwise it is all that was written.
C14_KeepsMostRecent ==
  \A r \in 1..Len(runs) :
    LET n == Len(emitted[r]) IN
    IF n > MAX_OUTPUT_SIZE
      THEN fullOutput[r] =
             TruncationMarker \o SubSeq(emitted[r], n - MAX_OUTPUT_SIZE + 1, n)
      ELSE fullOutput[r] = emitted[r]

\* an output that was already truncated has just been truncated again
C14_Witness ==
  /\ last.op = "data"
  /\ FxHas(<<"truncate", "again">>)
  /\ Len(emitted[last.run]) > MAX_OUTPUT_SIZE + 1

\* C15: the close handler of a run that is not cancelled persists completed
\* if the exit code is 0 and failed otherwise, with the exit code, the
\* accumulated output and completed_at, and broadcasts one
\* run_status_changed event with that status.
C15_CloseMapsExitCode ==
  (last.op = "close" /\ last.pre # "cancelled") =>
    LET run == runs[last.run]
        st == IF last.ret = "0" THEN "completed" ELSE "failed" IN
    /\ run.status = st
    /\ CodeName(run.exit_code) = last.ret
    /\ run.output = fullOutput[last.run]
    /\ run.completed_at
    /\ Cardinality(FxPositions(<<"broadcast", st>>)) = 1
    /\ \A i \in 1..Len(last.fx) :
         (last.fx[i][1] = "broadcast" /\ last.fx[i][2] \in Terminal) => last.fx[i][2] = st

\* a process that wrote output was killed by a signal: no exit code, failed
C15_Witness ==
  /\ last.op = "close"
  /\ last.pre = "running"
  /\ last.ret = "null"
  /\ runs[last.run].output # <<>>
  /\ runs[last.run].status = "failed"

FxTaskUpdates == {i \in 1..Len(last.fx) : last.fx[i][1] = "task"}

\* C16: every terminal transition of a run updates the status of its task,
\* so no task is in_progress when it has a terminal run and no active run.
C16_TaskLeavesInProgress ==
  \A r \in 1..Len(runs) :
    (runs[r].status \in Terminal /\ NonTerminalRunsOf(runs[r].task_id) = {})
      => taskStatus[runs[r].task_id] # "in_progress"

\* C17: when the process cannot be started (the 'error' event of a failed
\* spawn, a failing launch command), the run is persisted as failed with the
\* error, a failed event is broadcast and the status of the task is updated.
C17_StartFailureNotifiesTask ==
  (last.op = "error" \/ (last.op = "startRun" /\ last.errMsg = "osascript")) =>
    /\ FxHas(<<"db", "failed">>)
    /\ FxHas(<<"broadcast", "failed">>)
    /\ FxTaskUpdates # {}

\* C18: markRunComplete on a run in status launched completes it, moves its
\* task to review, broadcasts one completed event and returns true; on any
\* other id or status it returns false and changes and broadcasts nothing.
C18_MarkRunCompleteOnlyLaunched ==
  [][last'.op = "markRunComplete" =>
       LET r == last'.run IN
       IF StatusOf(r) = "launched"
         THEN /\ last'.ret = "true"
              /\ runs' = [runs EXCEPT ![r].status = "completed",
                                      ![r].completed_at = TRUE]
              /\ taskStatus' = [taskStatus EXCEPT ![runs[r].task_id] = "review"]
              /\ Cardinality({i \in 1..Len(last'.fx) :
                                last'.fx[i] = <<"broadcast", "completed">>}) = 1
         ELSE /\ last'.ret = "false"
              /\ last'.fx = <<>>
              /\ runs' = runs
              /\ taskStatus' = taskStatus]_vars

\* markRunComplete lost the race against cancelRun
C18_Witness ==
  /\ last.op = "markRunComplete"
  /\ last.pre = "cancelled"
  /\ last.ret = "false"
  /\ StatusOf(last.run) = "cancelled"

\* C19: a broadcast enqueues the event exactly once on every registered
\* subscriber whose enqueue succeeds, whatever the number and the position
\* of the subscribers whose enqueue throws, and on nobody else, and it does
\* not throw.
C19_DeliversToEveryLiveSubscriber ==
  [][sent'.count # sent.count =>
       /\ ~sent'.threw
       /\ \A c \in Controllers :
            inbox'[c] = IF c \in Range(clients) /\ c \notin closed
                          THEN Append(inbox[c], sent'.event)
                          ELSE inbox[c]]_vars

\* the first of three subscribers failed and the two after it got the event
C19_Witness ==
  /\ sent.op = "broadcast"
  /\ Len(sent.attempted) = 3
  /\ sent.attempted[1] \in sent.failed
  /\ Len(sent.delivered) = 2
  /\ \A c \in Range(sent.delivered) : inbox[c] # <<>> /\ inbox[c][Len(inbox[c])] = sent.event

\* C20: registerClient adds a subscriber and unregisterClient removes it; a
\* broadcast calls enqueue on the subscribers of the set only and removes
\* exactly those whose enqueue fails, so a dropped subscriber is in the set
\* and gets an attempt again only after it is registered again.
C20_SetIsRegisteredMinusDropped ==
  [][/\ Range(clients') =
          (IF sent' = sent THEN Range(clients)
           ELSE IF sent'.op = "registerClient" THEN Range(clients) \cup {sent'.client}
           ELSE IF sent'.op = "unregisterClient" THEN Range(clients) \ {sent'.client}
           ELSE Range(clients) \ sent'.failed)
     /\ sent'.count # sent.count =>
          /\ Range(sent'.attempted) = Range(clients)
          /\ sent'.failed = Range(clients) \cap closed
          /\ Range(sent'.attempted) \cap sent.dropped = {}
     /\ sent'.dropped \cap Range(clients') = {}]_vars

\* a second broadcast made no attempt on the subscriber the first one dropped
C20_Witness ==
  /\ sent.op = "broadcast"
  /\ sent.count = 2
  /\ sent.dropped # {}
  /\ sent.failed = {}
  /\ sent.attempted # <<>>
  /\ \A c \in sent.dropped : c \notin Range(sent.attempted)

FxTerminalBroadcasts ==
  {i \in 1..Len(last.fx) : last.fx[i][1] = "broadcast" /\ last.fx[i][2] \in Terminal}

\* C28: under every interleaving of cancelRun, the close event and the
\* error event a run makes at most one terminal transition: an operation
\* broadcasts at most one terminal run_status_changed event and updates the
\* task at most once, and none of it for a run that is already terminal.
C28_OneTerminalTransition ==
  last.run # 0 =>
    /\ Cardinality(FxTerminalBroadcasts) <= (IF last.pre \in Terminal THEN 0 ELSE 1)
    /\ last.pre \in Terminal => FxTaskUpdates = {}

\* C29: every run whose persisted status is failed has an exit code or an
\* error.
C29_FailedHasCodeOrError ==
  \A r \in 1..Len(runs) :
    runs[r].status = "failed" => (runs[r].exit_code # {} \/ runs[r].error # {})

\* the path startRun was called with exists and its physical path is under
\* no allow-listed prefix
ResolvedOutside(project_dir) ==
  /\ project_dir # NoDir
  /\ ExistsSync(Resolve(project_dir))
  /\ ~IsAllowed(RealPath(Resolve(project_dir)))

\* C27: startRun with a project_dir whose physical path is under no
\* allow-listed prefix throws the directory-not-allowed RunValidationError,
\* whatever the unresolved path looks like, and it throws that error for no
\* other existing path; no run record has a project_dir whose physical path
\* is outside the allow-list.
C27_AllowListUsesResolvedPath ==
  /\ last.op = "startRun" /\ req.project_dir # NoDir
       /\ ExistsSync(Resolve(req.project_dir)) =>
       (ResolvedOutside(req.project_dir) <=>
          (last.ret = "throw" /\ last.errName = "RunValidationError"
             /\ last.errMsg = NotAllowedMsg))
  /\ \A r \in 1..Len(runs) : ~ResolvedOutside(runs[r].project_dir)

\* a symbolic link under /tmp that points outside the allow-list was refused
C27_Witness ==
  /\ last.op = "startRun"
  /\ IsAllowed(Resolve(req.project_dir))
  /\ ResolvedOutside(req.project_dir)
  /\ last.errMsg = NotAllowedMsg
  /\ runs = <<>>

\* C30: no operation deletes a run record or changes the id, task_id,
\* created_at, prompt, project_dir or cli_type of an existing one.
C30_RunsKeptAndIdentityFrozen ==
  [][/\ Len(runs') >= Len(runs)
     /\ \A r \in 1..Len(runs) :
          /\ runs'[r].id = runs[r].id
          /\ runs'[r].task_id = runs[r].task_id
          /\ runs'[r].created_at = runs[r].created_at
          /\ runs'[r].prompt = runs[r].prompt
          /\ runs'[r].project_dir = runs[r].project_dir
          /\ runs'[r].cli_type = runs[r].cli_type]_vars

\* the second run has reached a terminal status and has the identity it was
\* created with
C30_Witness ==
  /\ Len(runs) = 2
  /\ runs[2].status \in Terminal
  /\ runs[2].completed_at
  /\ runs[2].id = 2 /\ runs[2].created_at = 2
  /\ runs[2].prompt = "text" /\ runs[2].cli_type = "claude"

\* C25: when an operation broadcasts a terminal run_status_changed event of
\* a run, the output stored for the run is the output accumulated for it.
C25_OutputStoredAtTerminalEvent ==
  (last.run # 0 /\ FxTerminalBroadcasts # {}) =>
    runs[last.run].output = fullOutput[last.run]

\* the effect at position i of the last operation lies inside a transaction
\* that is not committed yet
FxUncommitted(i) ==
  \E b \in FxPositions(<<"begin", "">>) :
    b < i /\ \A c \in FxPositions(<<"commit", "">>) : c < b \/ c > i

FxRunBroadcasts ==
  {i \in 1..Len(last.fx) :
     last.fx[i][1] = "broadcast" /\ last.fx[i][2] \in Terminal \cup NonTerminal}

\* C26: every run_status_changed event is broadcast outside any uncommitted
\* transaction, and the write made last before it gave the run the status
\* that the event carries.
C26_PersistedBeforeBroadcast ==
  \A i \in FxRunBroadcasts :
    /\ ~FxUncommitted(i)
    /\ \E j \in 1..(i - 1) :
         /\ last.fx[j] = <<"db", last.fx[i][2]>>
         /\ \A k \in (j + 1)..(i - 1) : last.fx[k][1] # "db"

\* the events of q are events of p in the order they have in p
RECURSIVE IsSubsequence(_, _)
IsSubsequence(q, p) ==
  IF q = <<>> THEN TRUE
  ELSE IF p = <<>> THEN FALSE
  ELSE IF Head(q) = Head(p) THEN IsSubsequence(Tail(q), Tail(p))
  ELSE IsSubsequence(q, Tail(p))

\* the text of the run_output events of run r in q, in the order of q
RECURSIVE OutputIn(_, _)
OutputIn(q, r) ==
  IF q = <<>> THEN <<>>
  ELSE (IF Head(q).type = "run_output" /\ Head(q).runId = r THEN Head(q).output ELSE <<>>)
         \o OutputIn(Tail(q), r)

\* C21: what a subscriber received is a subsequence, in the same order, of
\* the events broadcast so far, and it receives an event only while it is
\* registered; the run_output events of a run are broadcast in the order the
\* process wrote the chunks, so a subscriber receives them in that order.
C21_SubscriberSeesBroadcastOrder ==
  [][\A c \in Controllers :
       /\ IsSubsequence(inbox'[c], sent'.log)
       /\ inbox'[c] # inbox[c] => c \in Range(clients)
       /\ \A r \in 1..Len(runs') :
            /\ OutputIn(sent'.log, r) = emitted'[r]
            /\ IsSubsequence(OutputIn(inbox'[c], r), emitted'[r])]_vars

\* a subscriber got two different chunks of a run and then, after it missed
\* an event, the terminal event of the run
C21_Witness ==
  LET q == inbox["c1"] IN
  /\ Len(q) = 3
  /\ q[1].type = "run_output" /\ q[2].type = "run_output"
  /\ q[1].output # q[2].output
  /\ q[3].type = "run_status_changed" /\ q[3].status \in Terminal
  /\ Len(sent.log) > 4

\* the status written last by the operation performed last, "" if none
FxLastWrite ==
  LET at == {i \in 1..Len(last.fx) : last.fx[i][1] = "db"}
  IN  IF at = {} THEN "" ELSE last.fx[CHOOSE i \in at : \A j \in at : j <= i][2]

\* C22: whatever the dispatcher and the notification sender meet (a failing
\* lookup, no webhook, a disabled notification, an exception, an HTTP error,
\* a rejected request), no error leaves broadcast or the dispatcher, every
\* registered subscriber whose stream is open gets every event of the
\* operation, the run has the status the operation wrote, and neither the
\* broadcast of another module nor the settling of a webhook request changes
\* a run or a task.
C22_DispatcherFailuresAreContained ==
  [][/\ ~discord'.crashed
     /\ ~sent'.threw
     /\ \A c \in Controllers :
          inbox'[c] = IF c \in Range(clients) /\ c \notin closed
                        THEN inbox[c] \o SubSeq(sent'.log, Len(sent.log) + 1,
                                                Len(sent'.log))
                        ELSE inbox[c]
     /\ (last' # last /\ last'.run # 0 /\ FxLastWrite' # "") =>
          runs'[last'.run].status = FxLastWrite'
     /\ (Len(sent'.log) > Len(sent.log) /\ sent'.event \in StreamEvents) =>
          UNCHANGED runnerVars
     /\ discord'.pending < discord.pending =>
          UNCHANGED <<runnerVars, clients, closed, inbox, sent>>]_vars

\* the notification of the terminal event of a run failed, and the subscriber
\* has the event and the run its status
C22_Witness ==
  /\ last.op = "close"
  /\ runs[last.run].status = "failed"
  /\ discord.errors = 1 /\ discord.pending = 0
  /\ Len(discord.calls) = 1
  /\ discord.calls[1].n = Len(sent.log)
  /\ inbox["c1"] # <<>>
  /\ inbox["c1"][Len(inbox["c1"])] = RunStatusChanged(last.run, "t1", "failed")

\* the notification a run_status_changed event with the status is to give
ExpectedRunNotification(status) ==
  CASE status \in {"running", "launched"} -> "run_started"
    [] status = "completed" -> "run_completed"
    [] status = "failed" -> "run_failed"
    [] OTHER -> ""

\* the calls of notifyDiscord for the n'th event broadcast
CallsFor(n) == {k \in 1..Len(discord.calls) : discord.calls[k].n = n}

\* the workspace of the n'th event broadcast, a run event, as far as it can
\* be determined
DeterminedWorkspace(n) ==
  LET e == sent.log[n] IN
  IF e.workspaceId # "" THEN e.workspaceId
  ELSE IF n \in discord.lookupFailed THEN ""
  ELSE TaskWorkspace(e.taskId)

\* C23: for a run_status_changed event the dispatcher calls notifyDiscord at
\* most once, with run_started for running and launched, run_completed for
\* completed and run_failed for failed and with the workspace of the event
\* or of its task; it calls it exactly when the status is one of these and
\* the workspace is determined, so never for cancelled or pending.
C23_RunEventsMapToNotifications ==
  \A n \in 1..Len(sent.log) :
    sent.log[n].type = "run_status_changed" =>
      LET e == sent.log[n]
          expected == ExpectedRunNotification(e.status) IN
      /\ Cardinality(CallsFor(n)) <= 1
      /\ \A k \in CallsFor(n) :
           /\ discord.calls[k].eventType = expected
           /\ discord.calls[k].workspaceId = DeterminedWorkspace(n)
      /\ CallsFor(n) # {} <=> (expected # "" /\ DeterminedWorkspace(n) # "")

\* a started run was notified, its cancellation was not, and neither was
\* the failure of a run whose task is gone
C23_Witness ==
  \E i, j, k \in 1..Len(sent.log) :
    /\ sent.log[i].status = "running"
    /\ \E c \in CallsFor(i) : discord.calls[c].eventType = "run_started"
    /\ sent.log[j].status = "cancelled" /\ CallsFor(j) = {}
    /\ sent.log[k].taskId = "gone" /\ sent.log[k].status = "failed"
    /\ CallsFor(k) = {}

\* C24: a step that changes the status of a task calls notifyDiscord with
\* task_status_changed, and no task_updated event whose status equals its
\* previous status gives a call.
C24_TaskStatusChangeNotified ==
  [][/\ \A t \in Tasks :
          taskStatus'[t] # taskStatus[t] =>
            \E k \in (Len(discord.calls) + 1)..Len(discord'.calls) :
              discord'.calls[k].eventType = "task_status_changed"
     /\ \A k \in 1..Len(discord'.calls) :
          LET e == sent'.log[discord'.calls[k].n] IN
          e.type = "task_updated" => e.status # e.previous_status]_vars

\* C33: the live-process map never holds more than MAX_CONCURRENT processes.
C33_LiveProcessesBounded == Cardinality(activeProcesses) <= MAX_CONCURRENT

\* the statuses a write of the last operation gave to a run
FxStatusesWritten == {last.fx[i][2] : i \in {j \in 1..Len(last.fx) : last.fx[j][1] = "db"}}

\* C35: every status an operation writes to a run record is one that the
\* CHECK constraint of task_runs.status accepts.
C35_WrittenStatusesAccepted == FxStatusesWritten \subseteq SchemaStatuses

\* C37: no run_output event is broadcast for a run whose terminal
\* run_status_changed event has been broadcast.
C37_NoOutputAfterTerminalEvent ==
  last.op = "data" =>
    ~\E n \in 1..Len(sent.log) :
       /\ sent.log[n].type = "run_status_changed"
       /\ sent.log[n].runId = last.run
       /\ sent.log[n].status \in Terminal

\* an escalation timer of run r fires
TimerFires(r) == \E killFails \in BOOLEAN : KillTimer(r, killFails) /\ UNCHANGED others

\* Next with what the event loop guarantees: a queued 'error' event is
\* delivered and a timer that was set fires
SpecLive ==
  /\ Spec
  /\ \A r \in RunIds : WF_vars(SpawnErrorEvent(r) /\ UNCHANGED others)
  /\ \A r \in RunIds : WF_vars(TimerFires(r))

\* C36: a run has an entry in the live-process map only while its status is
\* running or cancelled, and the entry of a live run that cancelRun
\* cancelled is removed in the end.
C36_MapEntryOnlyWhileRunningOrCancelled ==
  /\ [](\A r \in activeProcesses : StatusOf(r) \in {"running", "cancelled"})
  /\ \A r \in RunIds :
       (r \in activeProcesses /\ timers[r] > 0) ~> (r \notin activeProcesses)

\* the timer of a cancelled run fired while the process was still tracked
\* and removed the entry
C36_Witness ==
  /\ last.op = "killTimer"
  /\ last.tracked
  /\ last.run \notin activeProcesses
  /\ StatusOf(last.run) = "cancelled"

\* no operation, event or timer of the captured runner writes to a run
\* that a returned startRun left pending
PendingIsNeverLeft ==
  [][\A r \in 1..Len(runs) :
       (variant = "captured" /\ runs[r].status = "pending") =>
         runs'[r].status = "pending"]_vars

\* C34: every run that is pending leaves pending in the end.
C34_PendingRunLeavesPending ==
  \A r \in RunIds : (StatusOf(r) = "pending") ~> (StatusOf(r) # "pending")

\* ------------------------------------------- a failing task status update
\* the captured runner when a statement of updateTaskStatus can throw
InitTaskFail ==
  /\ variant = "captured"
  /\ runs = <<>>
  /\ taskStatus = [t \in Tasks |-> "inbox"]
  /\ activeProcesses = {}
  /\ proc = [r \in RunIds |-> "none"]
  /\ timers = [r \in RunIds |-> 0]
  /\ budget = [runs |-> MaxRuns, timers |-> MaxTimers, errors |-> 0,
               restarts |-> 0, throws |-> MaxSpawnThrows]
  /\ last = NoOp
  /\ batch = NoBatch
  /\ req = NoRequest
  /\ fullOutput = [r \in RunIds |-> <<>>]
  /\ emitted = [r \in RunIds |-> <<>>]
  /\ clients = <<>>
  /\ closed = {}
  /\ inbox = [c \in Controllers |-> <<>>]
  /\ sent = NoBroadcast
  /\ discord = NoDiscord
  /\ mig = NoMigrations
  /\ oc = NoClient

NextTaskFail ==
  \/ \E t \in Tasks, outcome \in {"ok", "taskfails"} :
       StartRun(t, NoDir, "text", "claude", outcome) /\ UNCHANGED others
  \/ \E r \in RunIds, code \in AllCloseCodes, taskFails \in BOOLEAN :
       CloseEventWith(r, code, taskFails) /\ UNCHANGED others
  \/ \E r \in RunIds : CancelRun(r, FALSE) /\ UNCHANGED others
  \/ \E r \in RunIds : KillTimer(r, FALSE) /\ UNCHANGED others

SpecTaskFail == InitTaskFail /\ [][NextTaskFail]_vars

TaskUpdateFailed == last.errMsg = "updateTaskStatus"

\* C32: when the task update throws during the start or the terminal
\* transition of a run, the run's status is persisted, its
\* run_status_changed event is still broadcast, and startRun does not throw.
C32_TaskFailureIsContained ==
  TaskUpdateFailed =>
    /\ \E i \in 1..Len(last.fx) : last.fx[i][1] = "db"
    /\ \E i \in 1..Len(last.fx) :
         last.fx[i][1] = "broadcast" /\ last.fx[i][2] = FxLastWrite
    /\ last.op = "startRun" => last.ret # "throw"

\* ------------------------------------------------ migrations on one database
InitMigrations ==
  /\ variant = "captured"
  /\ runs = <<>>
  /\ taskStatus = [t \in Tasks |-> "inbox"]
  /\ activeProcesses = {}
  /\ proc = [r \in RunIds |-> "none"]
  /\ timers = [r \in RunIds |-> 0]
  /\ budget = [runs |-> 0, timers |-> 0, errors |-> 0, restarts |-> 0, throws |-> 0]
  /\ last = NoOp
  /\ batch = NoBatch
  /\ req = NoRequest
  /\ fullOutput = [r \in RunIds |-> <<>>]
  /\ emitted = [r \in RunIds |-> <<>>]
  /\ clients = <<>>
  /\ closed = {}
  /\ inbox = [c \in Controllers |-> <<>>]
  /\ sent = NoBroadcast
  /\ discord = NoDiscord
  /\ mig = NoMigrations
  /\ oc = NoClient

NextMigrations ==
  \E fails \in {NoFailure} \cup [id : MigrationIds, at : FailurePoints] :
    /\ RunMigrations(fails)
    /\ UNCHANGED <<runnerVars, oc, batch, req, outputVars, sseVars>>

SpecMigrations == InitMigrations /\ [][NextMigrations]_vars

\* the position of a migration in the list
Position(id) == CHOOSE i \in 1..Len(migrations) : migrations[i] = id

InListOrder(ids) ==
  \A i, j \in 1..Len(ids) : i < j => Position(ids[i]) < Position(ids[j])

\* the ids before the migration that threw, all ids if none threw
Reached(m) ==
  IF m.threw = NoFailure THEN MigrationIds
  ELSE {id \in MigrationIds : Position(id) <= Position(m.threw.id)}

IsPrefix(ids) == \E n \in 0..Len(migrations) : ids = {migrations[i] : i \in 1..n}

\* C38: when the transaction of a migration throws, neither its schema
\* changes nor its record stay, runMigrations rethrows and starts no later
\* migration; from an empty database the applied ids are a prefix of the list.
C38_FailedMigrationRolledBackAndLast ==
  /\ [](mig.threw # NoFailure =>
          /\ mig.threw.id \notin mig.applied \cup mig.schema
          /\ mig.ran[Len(mig.ran)] = mig.threw.id
          /\ \A id \in mig.applied : Position(id) < Position(mig.threw.id))
  /\ [](mig.schema = mig.applied /\ IsPrefix(mig.applied))

C38_Witness ==
  /\ mig.threw # NoFailure
  /\ Len(mig.ran) >= 2
  /\ mig.calls >= 2
  /\ mig.threw.at = "up"

\* --------------------------------------------------- the OpenClaw client
InitClient ==
  /\ variant = "captured"
  /\ runs = <<>>
  /\ taskStatus = [t \in Tasks |-> "inbox"]
  /\ activeProcesses = {}
  /\ proc = [r \in RunIds |-> "none"]
  /\ timers = [r \in RunIds |-> 0]
  /\ budget = [runs |-> 0, timers |-> 0, errors |-> 0, restarts |-> 0, throws |-> 0]
  /\ last = NoOp
  /\ batch = NoBatch
  /\ req = NoRequest
  /\ fullOutput = [r \in RunIds |-> <<>>]
  /\ emitted = [r \in RunIds |-> <<>>]
  /\ clients = <<>>
  /\ closed = {}
  /\ inbox = [c \in Controllers |-> <<>>]
  /\ sent = NoBroadcast
  /\ discord = NoDiscord
  /\ mig = NoMigrations
  /\ oc = NoClient

notClient == <<runnerVars, mig, batch, req, outputVars, sseVars>>

\* the close of a socket that close() was called on completes
CloseCompletes(s) == oc.sock[s] = "closing" /\ OnClose(s) /\ UNCHANGED notClient

TimeoutFires(a) == ConnectionTimeout(a) /\ UNCHANGED notClient

NextClient ==
  \/ \E throws \in BOOLEAN : Connect(throws) /\ UNCHANGED notClient
  \/ \E throws \in BOOLEAN : ReconnectFires(throws) /\ UNCHANGED notClient
  \/ \E a \in AttemptIds : TimeoutFires(a)
  \/ \E s \in AttemptIds : OnOpen(s) /\ UNCHANGED notClient
  \/ \E s \in AttemptIds : OnChallenge(s) /\ UNCHANGED notClient
  \/ \E s \in AttemptIds, ok \in BOOLEAN : OnAuthResponse(s, ok) /\ UNCHANGED notClient
  \/ \E s \in AttemptIds : OnError(s) /\ UNCHANGED notClient
  \/ \E s \in AttemptIds : OnClose(s) /\ UNCHANGED notClient
  \/ Disconnect /\ UNCHANGED notClient

SpecClient == InitClient /\ [][NextClient]_vars

\* timers fire and a close that was started completes; what the gateway
\* sends, and whether it does, is not up to the client
SpecClientLive ==
  /\ SpecClient
  /\ \A a \in AttemptIds : WF_vars(TimeoutFires(a))
  /\ \A s \in AttemptIds : WF_vars(CloseCompletes(s))

AttemptInProgress(o) == o.connecting # 0 /\ o.promise[o.connecting] = "pending"

C40_EveryAttemptSettles ==
  \A a \in AttemptIds :
    (oc.promise[a] = "pending") ~> (oc.promise[a] # "pending" /\ oc.connecting # a)

====
